---- MODULE Spec2Model ----
(***************************************************************************)
(* Model of systest's multi-area runner (systest_behave/runner.py) and of  *)
(* the reporter/formatter wrappers (systest_behave/wrapper.py).            *)
(*                                                                         *)
(* Representation.  A filesystem path is the sequence of its segments from *)
(* the filesystem root; ".." is an ordinary segment until the operating    *)
(* system resolves it.  A path specifier (one string of config.paths, or   *)
(* one line of a list-file) is a record                                    *)
(*    [at, abs, segs, suffix]                                              *)
(* standing for the text                                                   *)
(*    ("@" if at) ("/" if abs) segs joined by "/" (":" f for f in suffix). *)
(***************************************************************************)
EXTENDS Integers, Sequences, FiniteSets, TLC

\* Longest list of path specifiers given on the command line.
MaxSpecs == 2

----------------------------------------------------------------------------
(* The suite on disk                                                       *)

FeaturesPath == <<"suite", "features">>

Dirs ==
    { <<>>, <<"suite">>, <<"suite", "features">>,
      <<"suite", "features", "areaA">>, <<"suite", "features", "areaA", "steps">>,
      <<"suite", "features", "areaB">>, <<"suite", "features", "areaB", "steps">>,
      <<"suite", "features", "areaC">>, <<"suite", "features", "areaC", "steps">>,
      <<"suite", "other">>, <<"elsewhere">> }

Files ==
    { <<"suite", "features", "areaA", "a1.feature">>,
      <<"suite", "features", "areaA", "a2.feature">>,
      <<"suite", "features", "areaA", "draft.feature">>,
      <<"suite", "features", "areaA", "environment.py">>,
      <<"suite", "features", "areaB", "b1.feature">>,
      <<"suite", "features", "areaB", "notes.txt">>,
      <<"suite", "features", "areaC", "c1.feature">>,
      <<"suite", "features", "areaC", "environment.py">>,
      <<"suite", "other", "x.feature">>,
      <<"elsewhere", "y.feature">>,
      <<"list.txt">>,
      <<"outer.txt">> }

\* Names whose suffix (pathlib's Path.suffix) is ".feature".
FeatureNames ==
    {"a1.feature", "a2.feature", "draft.feature", "b1.feature", "c1.feature", "x.feature", "y.feature"}

\* The resolved names config.exclude() rejects (config.exclude_re).
ExcludedNames == {"draft.feature"}

\* Position of a segment in the order Python gives to the strings (str.__lt__).
NameRank(n) ==
    CASE n = ".." -> 0
      [] n = "a1.feature" -> 1
      [] n = "a2.feature" -> 2
      [] n = "areaA" -> 3
      [] n = "areaB" -> 4
      [] n = "areaC" -> 5
      [] n = "b1.feature" -> 6
      [] n = "c1.feature" -> 7
      [] n = "draft.feature" -> 8
      [] n = "elsewhere" -> 9
      [] n = "environment.py" -> 10
      [] n = "features" -> 11
      [] n = "list.txt" -> 12
      [] n = "notes.txt" -> 13
      [] n = "other" -> 14
      [] n = "steps" -> 15
      [] n = "suite" -> 16
      [] n = "x.feature" -> 17
      [] n = "y.feature" -> 18
      [] OTHER -> 19

\* config.environment_file and config.steps_dir (behave defaults).
environment_file == "environment.py"
steps_dir == "steps"

\* What executing an area's environment file binds in the hook table, and
\* what importing an area's step modules registers.
HooksOf(dir) ==
    CASE dir = <<"suite", "features", "areaA">> -> {"before_all", "after_scenario"}
      [] dir = <<"suite", "features", "areaC">> -> {"before_all"}
      [] OTHER -> {}

StepsOf(dir) ==
    CASE dir = <<"suite", "features", "areaA", "steps">> -> {"foo", "bar"}
      [] dir = <<"suite", "features", "areaB", "steps">> -> {"bar"}
      [] dir = <<"suite", "features", "areaC", "steps">> -> {"baz"}
      [] OTHER -> {}

----------------------------------------------------------------------------
(* Path primitives (pathlib / os)                                          *)

NoPath == <<"?">>

Parent(p) == IF p = <<>> THEN <<>> ELSE SubSeq(p, 1, Len(p) - 1)

\* The operating system's resolution of a path: ".." steps to the parent of
\* a directory that must exist.
RECURSIVE OsResolve(_, _)
OsResolve(cur, rest) ==
    IF rest = <<>> THEN cur
    ELSE IF cur \notin Dirs THEN NoPath
    ELSE IF Head(rest) = ".." THEN OsResolve(Parent(cur), Tail(rest))
    ELSE OsResolve(Append(cur, Head(rest)), Tail(rest))

Exists(p) == OsResolve(<<>>, p) \in Dirs \cup Files
IsDir(p) == OsResolve(<<>>, p) \in Dirs
IsFile(p) == OsResolve(<<>>, p) \in Files

\* PurePath.relative_to: purely lexical, no ".." is collapsed.
IsRelativeTo(p, root) == Len(p) >= Len(root) /\ SubSeq(p, 1, Len(root)) = root
RelativeTo(p, root) == SubSeq(p, Len(root) + 1, Len(p))

\* glob.has_magic and the matching of one pattern segment.
MagicSegs == {"*", "*.feature"}
HasMagic(segs) == \E i \in 1..Len(segs) : segs[i] \in MagicSegs
SegMatch(pat, name) ==
    \/ pat = "*"
    \/ pat = "*.feature" /\ name \in FeatureNames
    \/ pat = name

Children(dir) == {p \in Dirs \cup Files : Len(p) = Len(dir) + 1 /\ Parent(p) = dir}

\* Path.glob: the existing paths below cur matching the pattern segments.
RECURSIVE GlobFrom(_, _)
GlobFrom(cur, pats) ==
    IF pats = <<>> THEN {cur}
    ELSE IF cur \notin Dirs THEN {}
    ELSE UNION {GlobFrom(c, Tail(pats)) : c \in {d \in Children(cur) : SegMatch(Head(pats), d[Len(d)])}}

\* All orders in which a set can be enumerated (Path.glob does not sort).
RECURSIVE Perms(_)
Perms(S) ==
    IF S = {} THEN {<<>>}
    ELSE UNION {{<<x>> \o p : p \in Perms(S \ {x})} : x \in S}

----------------------------------------------------------------------------
(* Path specifiers                                                         *)

PathSpec(at, abs, segs, suffix) == [at |-> at, abs |-> abs, segs |-> segs, suffix |-> suffix]

\* The empty string, and str(p) for an absolute path p.
EmptyStr == PathSpec(FALSE, FALSE, <<>>, <<>>)
Str(p) == PathSpec(FALSE, TRUE, p, <<>>)

\* Strings for which str.isdigit() holds, and their int() value.
DigitStrs == {"0", "3", "12"}
IntOf(s) == CASE s = "0" -> 0 [] s = "3" -> 3 [] s = "12" -> 12 [] OTHER -> 0

\* line_number = None
NoLine == -1

\* One line of a list-file, as line.strip() sees it.
BlankLine == [kind |-> "blank", spec |-> EmptyStr]
CommentLine == [kind |-> "comment", spec |-> PathSpec(FALSE, FALSE, <<"# comment">>, <<>>)]
SpecLine(s) == [kind |-> "spec", spec |-> s]

\* Content of the list-files, by file name (relative to the working directory).
ListFileLines(segs) ==
    IF segs = <<"list.txt">>
    THEN << SpecLine(PathSpec(FALSE, FALSE, <<"areaB", "b1.feature">>, <<>>)),
            CommentLine,
            BlankLine,
            SpecLine(PathSpec(FALSE, FALSE, <<"areaA", "a2.feature">>, <<"3">>)),
            SpecLine(PathSpec(FALSE, FALSE, <<"areaA", "a1.feature">>, <<>>)) >>
    ELSE IF segs = <<"outer.txt">>
    THEN << SpecLine(PathSpec(FALSE, FALSE, <<"areaC", "c1.feature">>, <<>>)),
            SpecLine(PathSpec(TRUE, FALSE, <<"list.txt">>, <<>>)) >>
    ELSE <<>>

\* The specifiers the command line is drawn from.
Specifiers ==
    { PathSpec(FALSE, FALSE, <<"areaA">>, <<>>),
      PathSpec(FALSE, FALSE, <<"areaB", "*.feature">>, <<>>),
      PathSpec(FALSE, FALSE, <<"areaC">>, <<>>),
      PathSpec(FALSE, FALSE, <<"..", "other", "x.feature">>, <<>>),
      PathSpec(FALSE, TRUE, <<"elsewhere", "y.feature">>, <<>>),
      PathSpec(FALSE, FALSE, <<"areaA", "missing.feature">>, <<>>),
      PathSpec(FALSE, FALSE, <<"areaB", "notes.txt">>, <<"12">>),
      PathSpec(FALSE, FALSE, <<"areaA", "a1.feature">>, <<"-3">>),
      PathSpec(FALSE, FALSE, <<"areaA", "a1.feature">>, <<"3", "12">>),
      PathSpec(TRUE, FALSE, <<"list.txt">>, <<>>),
      PathSpec(TRUE, FALSE, <<"outer.txt">>, <<>>),
      PathSpec(TRUE, FALSE, <<"missing.txt">>, <<>>) }

RECURSIVE SeqsUpTo(_, _)
SeqsUpTo(S, n) ==
    IF n = 0 THEN {<<>>}
    ELSE LET shorter == SeqsUpTo(S, n - 1)
         IN shorter \cup {Append(q, x) : q \in shorter, x \in S}

----------------------------------------------------------------------------
(* iter_make_paths, iter_paths, resolve_feature                            *)

\* What the generators yield: a resolved path, or the exception they raise
\* when the consumer asks for the next element.
Item(spec, resolved, line) ==
    [kind |-> "item", exc |-> "none", path |-> spec, resolved |-> resolved, line |-> line]
Raise(exc, spec) ==
    [kind |-> "raise", exc |-> exc, path |-> spec, resolved |-> NoPath, line |-> NoLine]

\* Path(path_str).parts of the text before the first ":"; a leading "@" is
\* part of the first segment and makes the path relative.
PathParts(spec) ==
    IF ~spec.at THEN spec.segs
    ELSE IF spec.abs \/ spec.segs = <<>> THEN <<"@">> \o spec.segs
    ELSE <<"@" \o Head(spec.segs)>> \o Tail(spec.segs)

IsAbsolute(spec) == spec.abs /\ ~spec.at

\* iter_make_paths without the check of the line number part.
iter_make_paths_NoSuffixCheck(spec) ==
    LET line_number == IF spec.suffix = <<>> THEN NoLine ELSE IntOf(spec.suffix[1])
        search_root == IF IsAbsolute(spec) THEN <<>> ELSE FeaturesPath
        parts == PathParts(spec)
    IN  IF HasMagic(parts)
        THEN {[i \in 1..Len(order) |-> Item(spec, order[i], line_number)] :
                 order \in Perms(GlobFrom(search_root, parts))}
        ELSE {<<Item(spec, search_root \o parts, line_number)>>}

\* The possible sequences iter_make_paths yields for one specifier.
iter_make_paths(spec) ==
    IF spec.suffix # <<>> /\ ~(Len(spec.suffix) = 1 /\ spec.suffix[1] \in DigitStrs)
    THEN {<<Raise("ConfigError", spec)>>}
    ELSE LET line_number == IF spec.suffix = <<>> THEN NoLine ELSE IntOf(spec.suffix[1])
             search_root == IF IsAbsolute(spec) THEN <<>> ELSE FeaturesPath
             parts == PathParts(spec)
         IN  IF HasMagic(parts)
             THEN {[i \in 1..Len(order) |-> Item(spec, order[i], line_number)] :
                      order \in Perms(GlobFrom(search_root, parts))}
             ELSE {<<Item(spec, search_root \o parts, line_number)>>}

\* The loop over the lines of a list-file without the test that skips
\* blank lines and comments.
RECURSIVE iter_lines_KeepsComments(_)
iter_lines_KeepsComments(lines) ==
    IF lines = <<>> THEN {<<>>}
    ELSE {a \o b : a \in iter_make_paths(Head(lines).spec), b \in iter_lines_KeepsComments(Tail(lines))}

\* The lines of a list-file that are resolved, in order.
RECURSIVE iter_lines(_)
iter_lines(lines) ==
    IF lines = <<>> THEN {<<>>}
    ELSE IF Head(lines).kind = "spec"
         THEN {a \o b : a \in iter_make_paths(Head(lines).spec), b \in iter_lines(Tail(lines))}
         ELSE iter_lines(Tail(lines))

\* The possible sequences iter_paths yields for a list of specifiers; what
\* follows a raise is never produced.
RECURSIVE iter_paths(_)
iter_paths(paths) ==
    IF paths = <<>> THEN {<<>>}
    ELSE LET path_str == Head(paths)
             filename == path_str.segs
             first ==
                 IF path_str.at
                 THEN IF path_str.suffix # <<>> \/ filename \notin Files
                      THEN {<<Raise("FileNotFoundError", path_str)>>}
                      ELSE iter_lines(ListFileLines(filename))
                 ELSE iter_make_paths(path_str)
         IN  {a \o b : a \in first, b \in iter_paths(Tail(paths))}

FileLocation(filename, line) == [filename |-> filename, line |-> line]

resolve_feature(path, line_number) ==
    IF IsDir(path)
    THEN {FileLocation(Append(path, f[Len(f)]), line_number) :
             f \in {c \in Children(OsResolve(<<>>, path)) : c[Len(c)] \in FeatureNames}}
    ELSE IF IsFile(path) /\ path # <<>> /\ path[Len(path)] \in FeatureNames
    THEN {FileLocation(path, line_number)}
    ELSE {}

\* FileLocation.__lt__: by file name, then by line with None first.
RECURSIVE PathLess(_, _)
PathLess(p, q) ==
    IF q = <<>> THEN FALSE
    ELSE IF p = <<>> THEN TRUE
    ELSE IF Head(p) = Head(q) THEN PathLess(Tail(p), Tail(q))
    ELSE NameRank(Head(p)) < NameRank(Head(q))

LocLess(a, b) ==
    \/ PathLess(a.filename, b.filename)
    \/ a.filename = b.filename /\ a.line < b.line

\* list(feature_set) in an order that is not the sorted one.
RECURSIVE SortedList_Descending(_)
SortedList_Descending(S) ==
    IF S = {} THEN <<>>
    ELSE LET greatest == CHOOSE x \in S : \A y \in S \ {x} : LocLess(y, x)
         IN  <<greatest>> \o SortedList_Descending(S \ {greatest})

\* sorted(list(feature_set))
RECURSIVE SortedList(_)
SortedList(S) ==
    IF S = {} THEN <<>>
    ELSE LET least == CHOOSE x \in S : \A y \in S \ {x} : LocLess(x, y)
         IN  <<least>> \o SortedList(S \ {least})

----------------------------------------------------------------------------
(* SystestRunner.collect_feature_locations                                 *)

\* Configuration.exclude(filename)
exclude(filename) == filename # <<>> /\ filename[Len(filename)] \in ExcludedNames

\* grouped_feature_files.setdefault(area, set()).update(files) on a dict that
\* keeps its keys in insertion order.
SetDefaultUpdate(grouped, area, files) ==
    IF \E i \in 1..Len(grouped) : grouped[i].area = area
    THEN [i \in 1..Len(grouped) |->
             IF grouped[i].area = area
             THEN [area |-> area, locs |-> grouped[i].locs \cup files]
             ELSE grouped[i]]
    ELSE Append(grouped, [area |-> area, locs |-> files])

\* The for loop over iter_paths, from element i of the stream on.  The result
\* carries the exception raised (or "none"), the grouping and the number of
\* elements the loop took from the generator.
RECURSIVE CollectLoop(_, _, _)
CollectLoop(stream, i, grouped) ==
    IF i > Len(stream) THEN [exc |-> "none", grouped |-> grouped, consumed |-> Len(stream)]
    ELSE LET it == stream[i]
             resolved_path == it.resolved
         IN  IF it.kind = "raise" THEN [exc |-> it.exc, grouped |-> grouped, consumed |-> i]
             ELSE IF ~Exists(resolved_path) THEN CollectLoop(stream, i + 1, grouped)
             ELSE IF ~IsRelativeTo(resolved_path, FeaturesPath)
                  THEN [exc |-> "ConfigError", grouped |-> grouped, consumed |-> i]
             ELSE LET relative_path == RelativeTo(resolved_path, FeaturesPath)
                  IN  IF relative_path = <<>> THEN CollectLoop(stream, i + 1, grouped)
                      ELSE LET feature_area_folder == Head(relative_path)
                               resolved_feature_files ==
                                   {f \in resolve_feature(resolved_path, it.line) :
                                        ~exclude(f.filename)}
                           IN  IF resolved_feature_files = {}
                               THEN CollectLoop(stream, i + 1, grouped)
                               ELSE CollectLoop(stream, i + 1,
                                        SetDefaultUpdate(grouped, feature_area_folder,
                                                         resolved_feature_files))

\* The specifier list the loop runs over: "*" when none was supplied.
EffectivePaths(config_paths) ==
    IF config_paths = <<>> THEN <<PathSpec(FALSE, FALSE, <<"*">>, <<>>)>> ELSE config_paths

\* The entries of a grouping in the order of their area names.
RECURSIVE ByAreaName(_)
ByAreaName(grouped) ==
    IF grouped = <<>> THEN <<>>
    ELSE LET k == CHOOSE i \in 1..Len(grouped) :
                      \A j \in 1..Len(grouped) : NameRank(grouped[i].area) <= NameRank(grouped[j].area)
         IN  <<grouped[k]>> \o ByAreaName(SubSeq(grouped, 1, k - 1) \o SubSeq(grouped, k + 1, Len(grouped)))

Finalize_SortedAreas(grouped) ==
    LET g == ByAreaName(grouped)
    IN  [i \in 1..Len(g) |-> [area |-> g[i].area, locs |-> g[i].locs]]

\* The dict comprehension that ends collect_feature_locations.
Finalize(grouped) ==
    [i \in 1..Len(grouped) |-> [area |-> grouped[i].area, locs |-> SortedList(grouped[i].locs)]]

collect_feature_locations(stream) ==
    LET r == CollectLoop(stream, 1, <<>>)
    IN  [exc |-> r.exc, consumed |-> r.consumed,
         locations |-> IF r.exc = "none" THEN Finalize(r.grouped) ELSE <<>>]

----------------------------------------------------------------------------
(* Wrappers (wrapper.py)                                                   *)

Wrapper(cls, wrapped) == [cls |-> cls, wrapped |-> wrapped]

\* The objects behave hands out: reporters and formatters.
ReporterObjects == {"summary", "zephyr"}
FormatterObjects == {"pretty", "json"}
Objects == ReporterObjects \cup FormatterObjects
Methods == {"end", "close", "feature", "uri", "done"}

\* Calling method m on a wrapper of class cls: the method of the wrapped
\* object that runs, or "none".  Methods the wrapper class defines are found
\* by normal lookup; __getattr__ delegates every other name.
Dispatch_NoOverride(cls, m) ==
    IF cls = "ReporterWrapper" /\ m = "done" THEN "end"
    ELSE IF cls = "FormatterWrapper" /\ m = "done" THEN "close"
    ELSE IF m = "get_wrapped" THEN "none"
    ELSE m

Dispatch(cls, m) ==
    IF cls = "ReporterWrapper" /\ m = "done" THEN "end"
    ELSE IF cls = "ReporterWrapper" /\ m = "end" THEN "none"
    ELSE IF cls = "FormatterWrapper" /\ m = "done" THEN "close"
    ELSE IF cls = "FormatterWrapper" /\ m = "close" THEN "none"
    ELSE IF m = "get_wrapped" THEN "none"
    ELSE m

\* Configuration.setup_systest_reporters and wrap_reporters.
setup_systest_reporters(reps, cycle) == IF cycle THEN Append(reps, "zephyr") ELSE reps
IsReporter(r) == r \in ReporterObjects
wrap_reporters(reps) ==
    LET kept == SelectSeq(reps, IsReporter)
    IN  [i \in 1..Len(kept) |-> Wrapper("ReporterWrapper", kept[i])]

\* make_formatters: one wrapper for each formatter behave builds.
ConfiguredFormats == <<"pretty", "json">>
make_formatters == [i \in 1..Len(ConfiguredFormats) |-> Wrapper("FormatterWrapper", ConfiguredFormats[i])]

\* The counters after the calls in `calls` were made on every wrapper of ws.
NumCalls(calls, m) == Cardinality({i \in 1..Len(calls) : calls[i] = m})
NumReached(cls, calls, m) == Cardinality({i \in 1..Len(calls) : Dispatch(cls, calls[i]) = m})
IsWrapped(ws, o) == \E i \in 1..Len(ws) : ws[i].wrapped = o
ClassOf(ws, o) == ws[CHOOSE i \in 1..Len(ws) : ws[i].wrapped = o].cls

AfterCalls(count, ws, calls, reaching) ==
    [o \in Objects |->
        [m \in DOMAIN count[o] |->
            IF ~IsWrapped(ws, o) THEN count[o][m]
            ELSE IF reaching THEN count[o][m] + NumReached(ClassOf(ws, o), calls, m)
            ELSE count[o][m] + NumCalls(calls, m)]]

----------------------------------------------------------------------------
(* SystestRunner.load_hooks / load_step_definitions                        *)

Binding(name, origin) == [name |-> name, origin |-> origin]

\* exec_file(hooks_path, self.hooks): the names the file defines are bound in
\* the given table.
exec_file(hooks_path, table) ==
    table \cup {Binding(h, Parent(OsResolve(<<>>, hooks_path))) : h \in HooksOf(Parent(OsResolve(<<>>, hooks_path)))}

load_hooks_KeepsTable(old_hooks, feature_area_path) ==
    LET hooks_path == Append(feature_area_path, environment_file)
    IN  IF IsFile(hooks_path) THEN exec_file(hooks_path, old_hooks) ELSE old_hooks

load_hooks(old_hooks, feature_area_path) ==
    LET fresh == {}
        hooks_path == Append(feature_area_path, environment_file)
    IN  IF IsFile(hooks_path) THEN exec_file(hooks_path, fresh) ELSE fresh

\* behave.runner_util.reset_runtime and load_step_modules.
reset_runtime(registry) == {}
load_step_modules(registry, step_paths) ==
    registry \cup UNION {{Binding(st, OsResolve(<<>>, step_paths[i])) : st \in StepsOf(OsResolve(<<>>, step_paths[i]))} :
                            i \in 1..Len(step_paths)}

load_step_definitions(registry, feature_area_path) ==
    LET step_paths == <<Append(feature_area_path, steps_dir)>>
    IN  load_step_modules(reset_runtime(registry), step_paths)

----------------------------------------------------------------------------
(* State                                                                   *)

VARIABLES
    paths,              \* config.paths
    base_dir,           \* config.base_dir
    stop,               \* config.stop
    reporters,          \* config.reporters
    original_paths,     \* SystestRunner.original_paths
    feature_locations,  \* SystestRunner.feature_locations, in dict order
    formatters,         \* SystestRunner.formatters
    hooks,              \* SystestRunner.hooks
    step_registry,      \* behave's step registry
    aborted,            \* SystestRunner.aborted
    failed,             \* local of run()
    area_index,         \* position of the for loop of run()
    pc,                 \* where run() is
    exc,                \* the exception that left run(), or "none"
    result,             \* what run() returned, -1 before it returns
    start_paths,        \* history: config.paths when run() was called
    start_base_dir,     \* history: config.base_dir when run() was called
    resolved,           \* history: what the loop of collect_feature_locations took from iter_paths
    started,            \* history: the areas run_feature_area was called for
    engine_runs,        \* history: the areas run_model was called for
    outcomes,           \* history: what each run_model call reported
    invoked,            \* history: calls made on the wrappers, by wrapped object and method
    reached             \* history: calls that ran on the wrapped objects

\* Configuration.__init__ up to the parsing of the command line.
VARIABLES
    variables,          \* the variables defined in the operating system and in the config files
    from_source,        \* run_from_source()
    command_args,       \* the command line, token by token
    cli_config,         \* the config file auto_discover found on the command line
    env_values,         \* what build_environment_values returns, in dict order
    defaults,           \* the defaults dict, in dict order
    namespace,          \* the attributes the parsers set, in dict order
    load_pc,            \* where Configuration.__init__ is
    load_exc            \* the exception that left it, or "none"

load_vars == <<variables, from_source, command_args, cli_config, env_values, defaults,
               namespace, load_pc, load_exc>>

\* The validation that ends Configuration.__init__.
VARIABLES
    settings,           \* the attributes of the Configuration the validation reads
    disk,               \* the directories that exist
    suite_conf,         \* the content of the suite's suite.conf, or NoConf
    suite_data,         \* Configuration.suite_data
    run_version,        \* Configuration.run_version
    checked,            \* history: the checks made, in order
    val_pc,             \* where the validation is
    val_exc             \* the error that ended it, or NoError

validate_vars == <<settings, disk, suite_conf, suite_data, run_version, checked, val_pc, val_exc>>

\* main() of the command line program.
VARIABLES
    main_config,        \* the start of the program and what Configuration(...) gives
    requirements_file,  \* the suite's requirements.txt: absent, or its lines
    distributions,      \* the installed distributions, those of the lib directory first
    pip,                \* what running pip will do
    pip_calls,          \* history: the number of runs of pip
    environ_run_version,\* os.environ["SYSTEST_RUN_VERSION"], or Unset
    sys_path,           \* sys.path, as the set of its entries
    path_added,         \* local of handle_test_environment
    behave_calls,       \* history: the number of calls of run_behave
    behave_outcome,     \* what run_behave will do
    main_exc,           \* the exception in flight, or "none"
    main_pc,            \* where main() is
    exit_status         \* what main() returned, -1 before it returns

main_vars == <<main_config, requirements_file, distributions, pip, pip_calls, environ_run_version, sys_path, path_added,
               behave_calls, behave_outcome, main_exc, main_pc, exit_status>>

runner_vars == <<paths, base_dir, stop, reporters, original_paths, feature_locations,
                 formatters, hooks, step_registry, aborted, failed, area_index, pc, exc, result,
                 start_paths, start_base_dir, resolved, started, engine_runs, outcomes, invoked, reached>>

vars == <<runner_vars, load_vars, validate_vars, main_vars>>

config_vars == <<stop, reporters, start_paths, start_base_dir, load_vars, validate_vars, main_vars>>

\* The parts of the program a specification does not exercise stay as they
\* are before they start.
LoadIdle ==
    /\ variables = <<>> /\ from_source = FALSE /\ command_args = <<>> /\ cli_config = "None"
    /\ env_values = <<>> /\ defaults = <<>> /\ namespace = <<>>
    /\ load_pc = "idle" /\ load_exc = "none"

ValidateIdle ==
    /\ settings = <<>> /\ disk = {} /\ suite_conf = <<>> /\ suite_data = <<>> /\ run_version = ""
    /\ checked = <<>> /\ val_pc = "idle" /\ val_exc = "none"

MainIdle ==
    /\ main_config = <<>> /\ requirements_file = <<>> /\ distributions = <<>> /\ pip = "none" /\ pip_calls = 0
    /\ environ_run_version = "Unset"
    /\ sys_path = {} /\ path_added = FALSE /\ behave_calls = 0 /\ behave_outcome = "none"
    /\ main_exc = "none" /\ main_pc = "idle" /\ exit_status = -1

\* config.cycle_id is set: the Zephyr reporter is attached.
CycleIdSet == TRUE

NoCalls == [o \in Objects |-> [m \in Methods |-> 0]]

\* A constructed Configuration and a constructed SystestRunner.
Init ==
    /\ paths \in SeqsUpTo(Specifiers, MaxSpecs)
    /\ base_dir = EmptyStr
    /\ stop \in BOOLEAN
    /\ reporters = wrap_reporters(setup_systest_reporters(<<"summary">>, CycleIdSet))
    /\ original_paths = <<>>
    /\ feature_locations = <<>>
    /\ formatters = <<>>
    /\ hooks = {}
    /\ step_registry = {}
    /\ aborted = FALSE
    /\ failed = 0
    /\ area_index = 1
    /\ pc = "start"
    /\ exc = "none"
    /\ result = -1
    /\ start_paths = paths
    /\ start_base_dir = base_dir
    /\ resolved = <<>>
    /\ started = <<>>
    /\ engine_runs = <<>>
    /\ outcomes = <<>>
    /\ invoked = NoCalls
    /\ reached = NoCalls
    /\ LoadIdle /\ ValidateIdle /\ MainIdle

----------------------------------------------------------------------------
(* SystestRunner.run, step by step                                         *)

\* `if not self.feature_locations` of setup().
NoFeatureFiles_Never(locations) == FALSE
NoFeatureFiles(locations) == locations = <<>>

\* setup(), and failed = 0.
Setup ==
    /\ pc = "start"
    /\ original_paths' = paths
    /\ \E stream \in iter_paths(EffectivePaths(paths)) :
          LET r == collect_feature_locations(stream)
          IN  /\ resolved' = SubSeq(stream, 1, r.consumed)
              /\ IF r.exc # "none"
                 THEN /\ exc' = r.exc
                      /\ pc' = "raised"
                      /\ UNCHANGED <<feature_locations, formatters>>
                 ELSE /\ feature_locations' = r.locations
                      /\ IF NoFeatureFiles(r.locations)
                         THEN /\ exc' = "ConfigError"
                              /\ pc' = "raised"
                              /\ UNCHANGED formatters
                         ELSE /\ formatters' = make_formatters
                              /\ pc' = "loop"
                              /\ UNCHANGED exc
    /\ failed' = 0
    /\ UNCHANGED <<paths, base_dir, hooks, step_registry, aborted, area_index, result,
                   started, engine_runs, outcomes, invoked, reached, config_vars>>

AreaPath(name) == Append(FeaturesPath, name)

\* run_feature_area up to parse_features: the next area of the for loop.
LoadFeatureArea ==
    /\ pc = "loop"
    /\ area_index <= Len(feature_locations)
    /\ LET name == feature_locations[area_index].area
           feature_area_path == AreaPath(name)
       IN  /\ started' = Append(started, name)
           /\ base_dir' = Str(feature_area_path)
           /\ paths' = <<Str(feature_area_path)>>
           /\ hooks' = load_hooks(hooks, feature_area_path)
           /\ step_registry' = load_step_definitions(step_registry, feature_area_path)
           /\ IF ~IsDir(Append(feature_area_path, steps_dir))
              THEN pc' = "raised" /\ exc' = "FileNotFoundError"
              ELSE pc' = "run_model" /\ UNCHANGED exc
    /\ UNCHANGED <<original_paths, feature_locations, formatters, aborted, failed, area_index,
                   result, resolved, engine_runs, outcomes, invoked, reached, config_vars>>

\* run_feature_area leaves with an error of the area's own code or features:
\* its environment file or a step module raises, or a feature does not parse.
AreaRaises ==
    /\ pc = "loop"
    /\ area_index <= Len(feature_locations)
    /\ LET name == feature_locations[area_index].area
           feature_area_path == AreaPath(name)
       IN  /\ started' = Append(started, name)
           /\ base_dir' = Str(feature_area_path)
           /\ paths' = <<Str(feature_area_path)>>
           /\ \E at \in {"exec_file", "load_step_modules", "parse_features"} :
                 /\ at = "exec_file" => IsFile(Append(feature_area_path, environment_file))
                 /\ at # "exec_file" => IsDir(Append(feature_area_path, steps_dir))
                 /\ hooks' = IF at = "exec_file" THEN {} ELSE load_hooks(hooks, feature_area_path)
                 /\ step_registry' =
                       CASE at = "exec_file" -> step_registry
                         [] at = "load_step_modules" -> reset_runtime(step_registry)
                         [] OTHER -> load_step_definitions(step_registry, feature_area_path)
           /\ pc' = "raised"
           /\ exc' = "Exception"
    /\ UNCHANGED <<original_paths, feature_locations, formatters, aborted, failed, area_index,
                   result, resolved, engine_runs, outcomes, invoked, reached, config_vars>>

\* What behave's run_model calls on every formatter and on every reporter.
FormatterCalls == <<"uri", "close">>
ReporterCalls == <<"feature", "end">>

\* The loop body of run() after run_feature_area returned status: the new
\* value of failed, and whether one of the two break statements is taken.
FailedAfter_LastStatus(status, failed_before) == status
FailedAfter(status, failed_before) == IF status > 0 THEN 1 ELSE failed_before
BreaksLoop_IgnoresStop(status, stop_flag, aborted_flag) == aborted_flag
BreaksLoop_IgnoresAbort(status, stop_flag, aborted_flag) == status > 0 /\ stop_flag
BreaksLoop(status, stop_flag, aborted_flag) == (status > 0 /\ stop_flag) \/ aborted_flag

\* run_model for the loaded area, and the rest of the loop body of run().
\* The engine reports a status and may set its abort flag; the runner reads
\* the two independently.
RunModel ==
    /\ pc = "run_model"
    /\ \E status \in {0, 1}, abort \in BOOLEAN :
          /\ aborted' = (aborted \/ abort)
          /\ outcomes' = Append(outcomes, [status |-> status, aborted |-> aborted'])
          /\ failed' = FailedAfter(status, failed)
          /\ IF BreaksLoop(status, stop, aborted')
             THEN pc' = "finish" /\ UNCHANGED area_index
             ELSE /\ area_index' = area_index + 1
                  /\ pc' = IF area_index + 1 > Len(feature_locations) THEN "finish" ELSE "loop"
    /\ engine_runs' = Append(engine_runs, feature_locations[area_index].area)
    /\ invoked' = AfterCalls(AfterCalls(invoked, formatters, FormatterCalls, FALSE),
                             reporters, ReporterCalls, FALSE)
    /\ reached' = AfterCalls(AfterCalls(reached, formatters, FormatterCalls, TRUE),
                             reporters, ReporterCalls, TRUE)
    /\ UNCHANGED <<paths, base_dir, original_paths, feature_locations, formatters, hooks,
                   step_registry, exc, result, resolved, started, config_vars>>

\* `self.config.paths = self.original_paths` of finish().
RestoredPaths_Kept(saved, current) == current
RestoredPaths(saved, current) == saved

\* finish(), and return failed.
Finish ==
    /\ pc = "finish"
    /\ invoked' = AfterCalls(AfterCalls(invoked, formatters, <<"done">>, FALSE),
                             reporters, <<"done">>, FALSE)
    /\ reached' = AfterCalls(AfterCalls(reached, formatters, <<"done">>, TRUE),
                             reporters, <<"done">>, TRUE)
    /\ paths' = RestoredPaths(original_paths, paths)
    /\ result' = failed
    /\ pc' = "returned"
    /\ UNCHANGED <<base_dir, original_paths, feature_locations, formatters, hooks, step_registry,
                   aborted, failed, area_index, exc, resolved, started, engine_runs, outcomes,
                   config_vars>>

Next == Setup \/ LoadFeatureArea \/ AreaRaises \/ RunModel \/ Finish

Spec == Init /\ [][Next]_vars

----------------------------------------------------------------------------
(* Properties of SystestRunner.run                                         *)

AreaNames == [i \in 1..Len(feature_locations) |-> feature_locations[i].area]

\* finish() made its done() call on every formatter and reporter wrapper.
TeardownRan ==
    /\ \A i \in 1..Len(formatters) : invoked[formatters[i].wrapped]["done"] = 1
    /\ \A i \in 1..Len(reporters) : invoked[reporters[i].wrapped]["done"] = 1

SomeFailureReported == \E i \in 1..Len(outcomes) : outcomes[i].status > 0
SomeAbortReported == \E i \in 1..Len(outcomes) : outcomes[i].aborted

\* The step out of the loop: finish() runs and run() returns failed.
TeardownStep == pc = "finish" => (pc' = "returned" /\ TeardownRan' /\ result' = failed)

\* C1: with config.stop set, the area that reports a failure is the last one
\* started (no later area has its hooks or steps loaded or its features run),
\* the next step of run() is finish(), and run() returns 1.
C1_StopOnFirstFailure ==
    /\ [](stop =>
            \A i \in 1..Len(outcomes) :
                outcomes[i].status > 0 =>
                    /\ i = Len(outcomes)
                    /\ Len(started) = i
                    /\ Len(engine_runs) = i
                    /\ pc \in {"finish", "returned"}
                    /\ pc = "returned" => result = 1 /\ TeardownRan)
    /\ [][(stop /\ SomeFailureReported) => TeardownStep]_vars

\* A run of three areas stopped by the failure of the second one.
C1_Witness ==
    /\ stop /\ ~aborted
    /\ pc = "returned" /\ result = 1
    /\ Len(feature_locations) = 3
    /\ Len(started) = 2
    /\ outcomes[1].status = 0 /\ outcomes[2].status = 1

\* C2: with config.stop unset and no abort, a run that returns has run every
\* discovered area, and returns 1 exactly when some area reported a failure.
C2_AllAreasRunWithoutStop ==
    (pc = "returned" /\ ~stop /\ ~aborted) =>
        /\ engine_runs = AreaNames
        /\ started = AreaNames
        /\ result = IF SomeFailureReported THEN 1 ELSE 0

\* Three areas, the first one failing, all three run.
C2_Witness ==
    /\ pc = "returned" /\ ~stop /\ ~aborted
    /\ Len(engine_runs) = 3
    /\ outcomes[1].status = 1 /\ outcomes[2].status = 0 /\ outcomes[3].status = 0
    /\ result = 1

\* C3: when the abort flag is set as an area finishes, that area is the last
\* one started, whatever config.stop and the reported status are, and the
\* next step of run() is finish().
C3_AbortEndsLoop ==
    /\ [](\A i \in 1..Len(outcomes) :
            outcomes[i].aborted =>
                /\ i = Len(outcomes)
                /\ Len(started) = i
                /\ Len(engine_runs) = i
                /\ pc \in {"finish", "returned"}
                /\ pc = "returned" => TeardownRan)
    /\ [][SomeAbortReported => TeardownStep]_vars

\* An abort with status 0 and config.stop unset, two areas never started.
C3_Witness ==
    /\ ~stop /\ aborted
    /\ pc = "returned"
    /\ Len(feature_locations) = 3
    /\ Len(started) = 1
    /\ outcomes[1].status = 0

----------------------------------------------------------------------------
(* Area isolation                                                          *)

CurrentArea == started[Len(started)]
CurrentAreaDir == OsResolve(<<>>, AreaPath(CurrentArea))

\* C4: whenever run_model is entered for an area, every binding of the hook
\* table and of the step registry was loaded from that area's directory; the
\* hook table is empty when the area has no environment file, and no step
\* pattern is registered that the area's own step modules do not define.
C4_AreaIsolation ==
    pc = "run_model" =>
        /\ \A b \in hooks : b.origin = CurrentAreaDir
        /\ \A b \in step_registry : b.origin = Append(CurrentAreaDir, steps_dir)
        /\ ~IsFile(Append(AreaPath(CurrentArea), environment_file)) => hooks = {}
        /\ {b.name : b \in hooks} \subseteq HooksOf(CurrentAreaDir)
        /\ {b.name : b \in step_registry} \subseteq StepsOf(Append(CurrentAreaDir, steps_dir))

\* areaB (no environment file, no step "foo") is run after areaA (which has
\* hooks and defines "foo").
C4_Witness ==
    /\ pc = "run_model"
    /\ Len(started) >= 2
    /\ started[Len(started) - 1] = "areaA"
    /\ CurrentArea = "areaB"
    /\ hooks = {}
    /\ "foo" \notin {b.name : b \in step_registry}
    /\ "foo" \in StepsOf(<<"suite", "features", "areaA", "steps">>)

----------------------------------------------------------------------------
(* Grouping                                                                *)

\* What one element taken from iter_paths adds to the grouping: the area it
\* belongs to and the locations it yields.
ItemInRoot(it) ==
    /\ it.kind = "item"
    /\ Exists(it.resolved)
    /\ IsRelativeTo(it.resolved, FeaturesPath)
    /\ RelativeTo(it.resolved, FeaturesPath) # <<>>
ItemArea(it) == Head(RelativeTo(it.resolved, FeaturesPath))
ItemLocs(it) ==
    IF ItemInRoot(it)
    THEN {f \in resolve_feature(it.resolved, it.line) : ~exclude(f.filename)}
    ELSE {}

\* The first element of the resolution that gave the area a location (0: none).
FirstYield(area) ==
    LET hits == {i \in 1..Len(resolved) : ItemLocs(resolved[i]) # {} /\ ItemArea(resolved[i]) = area}
    IN  IF hits = {} THEN 0 ELSE CHOOSE i \in hits : \A j \in hits : i <= j

SetupDone == pc \notin {"start", "raised"} \/ (pc = "raised" /\ started # <<>>)

\* setup() has just returned.
JustSetUp == pc = "loop" /\ started = <<>>

\* C5: the mapping setup() returns lists the areas in the order in which each
\* first received a location during resolution, each once; run() starts the
\* areas in that order; the mapping is never changed after setup().
C5_FirstEncounterOrder ==
    /\ [](JustSetUp =>
            /\ \A i \in 1..Len(AreaNames) : FirstYield(AreaNames[i]) > 0
            /\ \A i, j \in 1..Len(AreaNames) :
                  i < j => FirstYield(AreaNames[i]) < FirstYield(AreaNames[j])
            /\ \A i \in 1..Len(resolved) :
                  ItemLocs(resolved[i]) # {} =>
                      \E k \in 1..Len(AreaNames) : AreaNames[k] = ItemArea(resolved[i]))
    /\ [](SetupDone =>
            /\ Len(started) <= Len(AreaNames)
            /\ started = SubSeq(AreaNames, 1, Len(started)))
    /\ [][pc # "start" => (feature_locations' = feature_locations /\ resolved' = resolved)]_vars

\* areaB is run before areaA because it was met first.
C5_Witness ==
    /\ pc = "returned"
    /\ started = <<"areaB", "areaA">>
    /\ FirstYield("areaB") < FirstYield("areaA")

----------------------------------------------------------------------------
(* Teardown                                                                *)

\* C7, as stated: when run() has returned, config.paths and config.base_dir
\* both have the values they had when run() was called.
C7_PathsAndBaseDirRestored ==
    pc = "returned" => (paths = start_paths /\ base_dir = start_base_dir)

\* C7, amended: when run() has returned, config.paths has the value it had
\* when run() was called, and config.base_dir is the directory of the last
\* area that was run.
C7_PathsRestoredBaseDirLeft ==
    pc = "returned" =>
        /\ paths = start_paths
        /\ base_dir = Str(AreaPath(CurrentArea))
        /\ base_dir # start_base_dir

\* Two areas were run, so both fields were re-assigned twice.
C7_Witness ==
    /\ pc = "returned"
    /\ Len(started) >= 2
    /\ start_paths # <<>>

WrappedNow(o) == IsWrapped(formatters, o) \/ IsWrapped(reporters, o)
Finalizer(o) == IF o \in ReporterObjects THEN "end" ELSE "close"

\* C8: the end()/close() of a wrapped reporter or formatter has run once when
\* run() has returned and not at all before; the end()/close() calls the
\* engine makes on the wrappers after every area run nothing on the wrapped
\* object, and every other call of the engine runs on the wrapped object.
C8_FinalizeOnceAtTeardown ==
    \A o \in Objects :
        /\ reached[o][Finalizer(o)] = IF pc = "returned" /\ WrappedNow(o) THEN 1 ELSE 0
        /\ reached[o][Finalizer(o)] = invoked[o]["done"]
        /\ WrappedNow(o) => invoked[o][Finalizer(o)] = Len(engine_runs)
        /\ \A m \in Methods \ {"end", "close", "done"} : reached[o][m] = invoked[o][m]
        /\ reached[o]["done"] = 0

\* Three areas were run: the engine called end()/close() three times on each
\* wrapper, and each wrapped object was finalized once.
C8_Witness ==
    /\ pc = "returned"
    /\ Len(engine_runs) = 3
    /\ \A o \in Objects :
          /\ WrappedNow(o)
          /\ invoked[o][Finalizer(o)] = 3
          /\ reached[o][Finalizer(o)] = 1

----------------------------------------------------------------------------
(* Errors of setup()                                                       *)

\* Resolution ran to its end and no element gave a location.
ResolvedNothing ==
    /\ pc # "start"
    /\ \A i \in 1..Len(resolved) :
          /\ resolved[i].kind = "item"
          /\ Exists(resolved[i].resolved) => IsRelativeTo(resolved[i].resolved, FeaturesPath)
          /\ ItemLocs(resolved[i]) = {}

\* C9: when resolution yields no location, setup() raises ConfigError and
\* nothing of an area is started: no hooks, no steps, no formatter, no
\* engine run.
C9_NoFeatureFilesIsFatal ==
    ResolvedNothing =>
        /\ pc = "raised"
        /\ exc = "ConfigError"
        /\ started = <<>>
        /\ engine_runs = <<>>
        /\ formatters = <<>>
        /\ hooks = {}
        /\ step_registry = {}
        /\ invoked = NoCalls

\* Specifiers were given and resolved to existing paths, none a feature file.
C9_Witness ==
    /\ ResolvedNothing
    /\ pc = "raised"
    /\ \E i \in 1..Len(resolved) : Exists(resolved[i].resolved)

\* The resolved path names a location that is not below the features root.
OutsideRoot(p) == Exists(p) /\ ~IsRelativeTo(OsResolve(<<>>, p), FeaturesPath)

\* C10, as stated: a specifier resolving to an existing location outside the
\* features root makes setup() raise ConfigError at that specifier, and no
\* location outside the features root is ever part of the grouping.
C10_OutsideRootIsFatal ==
    /\ \A i \in 1..Len(resolved) :
          (resolved[i].kind = "item" /\ OutsideRoot(resolved[i].resolved)) =>
              (pc = "raised" /\ exc = "ConfigError" /\ i = Len(resolved) /\ started = <<>>)
    /\ \A a \in 1..Len(feature_locations) :
          \A k \in 1..Len(feature_locations[a].locs) :
              ~OutsideRoot(feature_locations[a].locs[k].filename)

----------------------------------------------------------------------------
(* Line numbers and list-files                                             *)

\* The text after the first ":" of a specifier: present, and one field of
\* decimal digits.
HasLineSuffix(spec) == ~spec.at /\ spec.suffix # <<>>
ValidLineSuffix(spec) == Len(spec.suffix) = 1 /\ spec.suffix[1] \in DigitStrs

InLocations(f) ==
    \E a \in 1..Len(feature_locations) :
        \E k \in 1..Len(feature_locations[a].locs) : feature_locations[a].locs[k] = f

IsSpecLine(l) == l.kind = "spec"

\* The specifier list with every list-file replaced by its lines that are
\* neither blank nor comments.
RECURSIVE ExpandListFiles(_)
ExpandListFiles(ps) ==
    IF ps = <<>> THEN <<>>
    ELSE LET kept == SelectSeq(ListFileLines(Head(ps).segs), IsSpecLine)
         IN  (IF Head(ps).at THEN [i \in 1..Len(kept) |-> kept[i].spec] ELSE <<Head(ps)>>)
                 \o ExpandListFiles(Tail(ps))

\* What resolving each specifier of a list on its own yields, in order.
RECURSIVE PlainStreams(_)
PlainStreams(ps) ==
    IF ps = <<>> THEN {<<>>}
    ELSE {a \o b : a \in iter_make_paths(Head(ps)), b \in PlainStreams(Tail(ps))}

ListFilesExist ==
    \A i \in 1..Len(start_paths) :
        start_paths[i].at => (start_paths[i].suffix = <<>> /\ start_paths[i].segs \in Files)

ListTxt == PathSpec(TRUE, FALSE, <<"list.txt">>, <<>>)

\* C12: a run given "@file" specifiers resolves what the same run resolves
\* when each "@file" is replaced by the lines of the file that are not blank
\* and not comments, in their order, and returns the same locations; each
\* such line is resolved below the features root with its own line number.
C12_ListFileLinesResolved ==
    /\ (pc # "start" /\ ListFilesExist) =>
          \E s \in PlainStreams(ExpandListFiles(EffectivePaths(start_paths))) :
              /\ Len(resolved) <= Len(s)
              /\ resolved = SubSeq(s, 1, Len(resolved))
              /\ SetupDone => feature_locations = collect_feature_locations(s).locations
    /\ (pc # "start" /\ start_paths = <<ListTxt>>) =>
          /\ [i \in 1..Len(resolved) |-> resolved[i].resolved] =
                 << FeaturesPath \o <<"areaB", "b1.feature">>,
                    FeaturesPath \o <<"areaA", "a2.feature">>,
                    FeaturesPath \o <<"areaA", "a1.feature">> >>
          /\ [i \in 1..Len(resolved) |-> resolved[i].line] = <<NoLine, 3, NoLine>>

\* The five lines of list.txt gave three locations in two areas.
C12_Witness ==
    /\ start_paths = <<ListTxt>>
    /\ pc = "returned"
    /\ Len(ListFileLines(<<"list.txt">>)) = 5
    /\ Len(resolved) = 3
    /\ AreaNames = <<"areaB", "areaA">>
    /\ Len(feature_locations[2].locs) = 2

----
\* Environment and config variables (configuration.py)
\*
\* Variable names and values are sequences of one-character strings, so that
\* lower(), strip(), isnumeric(), int() and shlex.split() are computed.

LowerCh(c) ==
    CASE c = "A" -> "a" [] c = "B" -> "b" [] c = "C" -> "c" [] c = "D" -> "d" [] c = "E" -> "e"
      [] c = "F" -> "f" [] c = "G" -> "g" [] c = "H" -> "h" [] c = "I" -> "i" [] c = "J" -> "j"
      [] c = "K" -> "k" [] c = "L" -> "l" [] c = "M" -> "m" [] c = "N" -> "n" [] c = "O" -> "o"
      [] c = "P" -> "p" [] c = "Q" -> "q" [] c = "R" -> "r" [] c = "S" -> "s" [] c = "T" -> "t"
      [] c = "U" -> "u" [] c = "V" -> "v" [] c = "W" -> "w" [] c = "X" -> "x" [] c = "Y" -> "y"
      [] c = "Z" -> "z" [] OTHER -> c

Lower(s) == [i \in 1..Len(s) |-> LowerCh(s[i])]

StartsWith(s, prefix) == Len(s) >= Len(prefix) /\ SubSeq(s, 1, Len(prefix)) = prefix

Whitespace == {" ", "\t"}

RECURSIVE LStrip(_)
LStrip(s) == IF s # <<>> /\ Head(s) \in Whitespace THEN LStrip(Tail(s)) ELSE s

RECURSIVE RStrip(_)
RStrip(s) == IF s # <<>> /\ s[Len(s)] \in Whitespace THEN RStrip(SubSeq(s, 1, Len(s) - 1)) ELSE s

Strip(s) == RStrip(LStrip(s))

DecimalDigits == {"0", "1", "2", "3", "4", "5", "6", "7", "8", "9"}

DigitValue(c) ==
    CASE c = "0" -> 0 [] c = "1" -> 1 [] c = "2" -> 2 [] c = "3" -> 3 [] c = "4" -> 4
      [] c = "5" -> 5 [] c = "6" -> 6 [] c = "7" -> 7 [] c = "8" -> 8 [] c = "9" -> 9

IsNumeric(s) == s # <<>> /\ \A i \in 1..Len(s) : s[i] \in DecimalDigits

RECURSIVE ToInt(_)
ToInt(s) == IF s = <<>> THEN 0 ELSE 10 * ToInt(SubSeq(s, 1, Len(s) - 1)) + DigitValue(s[Len(s)])

RECURSIVE Join(_)
Join(s) == IF s = <<>> THEN "" ELSE Head(s) \o Join(Tail(s))

Quote == "\""

\* shlex.split: words are separated by whitespace, a quoted stretch belongs
\* to its word without the quotes, a quote left open is a ValueError.
RECURSIVE ShlexScan(_, _, _, _, _)
ShlexScan(s, word, in_word, in_quote, out) ==
    IF s = <<>> THEN
        IF in_quote THEN [ok |-> FALSE, tokens |-> <<>>]
        ELSE [ok |-> TRUE, tokens |-> IF in_word THEN Append(out, word) ELSE out]
    ELSE IF in_quote THEN
        IF Head(s) = Quote THEN ShlexScan(Tail(s), word, TRUE, FALSE, out)
        ELSE ShlexScan(Tail(s), Append(word, Head(s)), TRUE, TRUE, out)
    ELSE IF Head(s) \in Whitespace THEN
        ShlexScan(Tail(s), <<>>, FALSE, FALSE, IF in_word THEN Append(out, word) ELSE out)
    ELSE IF Head(s) = Quote THEN ShlexScan(Tail(s), word, TRUE, TRUE, out)
    ELSE ShlexScan(Tail(s), Append(word, Head(s)), TRUE, FALSE, out)

ShlexSplit(s) == ShlexScan(s, <<>>, FALSE, FALSE, <<>>)

\* behave's parse_user_define: NAME=VALUE split at the first "=", a bare NAME
\* means NAME=true.
IndexOfEquals(s) == IF \E i \in 1..Len(s) : s[i] = "=" THEN CHOOSE i \in 1..Len(s) : s[i] = "=" /\ \A j \in 1..(i - 1) : s[j] # "=" ELSE 0

parse_user_define(text) ==
    LET t == Strip(text)
        i == IndexOfEquals(t)
    IN  IF i = 0 THEN <<Join(t), "true">>
        ELSE <<Join(Strip(SubSeq(t, 1, i - 1))), Join(Strip(SubSeq(t, i + 1, Len(t))))>>

\* The values a setting can hold: None, a boolean, an integer, a string, a
\* list of strings, a list of (name, value) pairs.
PNone == [type |-> "None", bool |-> FALSE, int |-> 0, str |-> "", list |-> <<>>, pairs |-> <<>>]
PBool(b) == [PNone EXCEPT !.type = "bool", !.bool = b]
PInt(n) == [PNone EXCEPT !.type = "int", !.int = n]
PStr(s) == [PNone EXCEPT !.type = "str", !.str = s]
PList(l) == [PNone EXCEPT !.type = "list", !.list = l]
PPairs(p) == [PNone EXCEPT !.type = "pairs", !.pairs = p]
Missing == [PNone EXCEPT !.type = "missing"]

\* A dict keeps its keys in the order of their first insertion.
HasKey(d, k) == \E i \in 1..Len(d) : d[i].key = k
Get(d, k) == IF HasKey(d, k) THEN d[CHOOSE i \in 1..Len(d) : d[i].key = k].value ELSE Missing
DictSet(d, k, v) ==
    IF HasKey(d, k) THEN [i \in 1..Len(d) |-> IF d[i].key = k THEN [key |-> k, value |-> v] ELSE d[i]]
    ELSE Append(d, [key |-> k, value |-> v])

RECURSIVE DictUpdate(_, _)
DictUpdate(d, other) ==
    IF other = <<>> THEN d ELSE DictUpdate(DictSet(d, Head(other).key, Head(other).value), Tail(other))

ENV_SEQUENCE_OPTIONS == {"name", "tags", "format", "outfiles", "userdata_defines", "paths"}

ENV_EXCLUDED_OPTIONS ==
    {"suite", "create_suite_name", "config", "help", "tags_help", "lang_list", "lang_help",
     "verbose", "version"}

ENV_PREFIX == <<"s", "y", "s", "t", "e", "s", "t", "_">>

\* A variable definition: the source that holds it, its name and its raw value.
Var(src, key, value) == [src |-> src, key |-> key, value |-> value]

MaxVars == 2

VariablePool == {
    Var("os",     <<"S", "Y", "S", "T", "E", "S", "T", "_", "S", "T", "A", "G", "E">>, <<"m", "e", "r", "c", "u", "r", "y">>),
    Var("user",   <<"S", "Y", "S", "T", "E", "S", "T", "_", "S", "T", "A", "G", "E">>, <<"v", "e", "n", "u", "s">>),
    Var("project", <<"S", "Y", "S", "T", "E", "S", "T", "_", "S", "T", "A", "G", "E">>, <<"e", "a", "r", "t", "h">>),
    Var("cli",    <<"S", "Y", "S", "T", "E", "S", "T", "_", "S", "T", "A", "G", "E">>, <<"m", "a", "r", "s">>),
    Var("os",     <<"s", "y", "s", "t", "e", "s", "t", "_", "s", "t", "a", "g", "e">>, <<"p", "l", "u", "t", "o">>),
    Var("os",     <<"S", "Y", "S", "T", "E", "S", "T", "_", "S", "T", "A", "G", "E">>, <<" ", " ">>),
    Var("os",     <<"S", "Y", "S", "T", "E", "S", "T", "_", "S", "T", "O", "P">>, <<"F", "a", "l", "s", "e">>),
    Var("os",     <<"S", "Y", "S", "T", "E", "S", "T", "_", "J", "O", "B", "S">>, <<" ", "1", "2", " ">>),
    Var("os",     <<"S", "Y", "S", "T", "E", "S", "T", "_", "T", "A", "G", "S">>, <<"@", "a", " ", " ", "\"", "@", "b", " ", "c", "\"">>),
    Var("user",   <<"S", "Y", "S", "T", "E", "S", "T", "_", "T", "A", "G", "S">>, <<"1", "2">>),
    Var("os",     <<"S", "Y", "S", "T", "E", "S", "T", "_", "U", "S", "E", "R", "D", "A", "T", "A", "_", "D", "E", "F", "I", "N", "E", "S">>, <<"k", "=", "v", " ", "w">>),
    Var("os",     <<"S", "Y", "S", "T", "E", "S", "T", "_">>, <<"m", "e", "r", "c", "u", "r", "y">>),
    Var("os",     <<"O", "T", "H", "E", "R", "_", "V", "A", "R">>, <<"m", "e", "r", "c", "u", "r", "y">>),
    Var("os",     <<"S", "Y", "S", "T", "E", "S", "T", "_", "S", "U", "I", "T", "E">>, <<"d", "e", "m", "o">>),
    Var("user",   <<"S", "Y", "S", "T", "E", "S", "T", "_", "V", "E", "R", "S", "I", "O", "N">>, <<>>),
    Var("project", <<"S", "Y", "S", "T", "E", "S", "T", "_", "H", "E", "L", "P">>, <<" ">>),
    Var("cli",    <<"S", "Y", "S", "T", "E", "S", "T", "_", "C", "O", "N", "F", "I", "G">>, <<"x", ".", "e", "n", "v">>) }

\* A command line token: a bare option, an option with its value attached
\* by "=", or a plain word.
Opt(o) == [kind |-> "option", opt |-> o, text |-> ""]
OptEq(o, t) == [kind |-> "option=value", opt |-> o, text |-> t]
Word(t) == [kind |-> "word", opt |-> "", text |-> t]

TokenText(tok) ==
    CASE tok.kind = "option" -> tok.opt
      [] tok.kind = "option=value" -> tok.opt \o "=" \o tok.text
      [] OTHER -> tok.text

CliEnv == "cli.env"

ConfigArgs == {<<>>, <<Opt("--config"), Word(CliEnv)>>, <<OptEq("--config", CliEnv)>>}

FlagArgs == {<<>>, <<Opt("--stage"), Word("cli_stage"), Opt("--stop"), Opt("--tags"), Word("@cli")>>}

\* The dict a source holds: the variables defined in it, a later definition
\* of a name replacing an earlier one.
RECURSIVE SourceDict(_, _)
SourceDict(vs, src) ==
    IF vs = <<>> THEN <<>>
    ELSE LET rest == SourceDict(SubSeq(vs, 1, Len(vs) - 1), src)
             last == vs[Len(vs)]
         IN  IF last.src = src THEN DictSet(rest, last.key, last.value) ELSE rest

UserConfig == "~/.systest"
ProjectConfig == "project/.env"

FileSource(file) ==
    CASE file = UserConfig -> "user" [] file = ProjectConfig -> "project" [] file = CliEnv -> "cli"
      [] OTHER -> "nowhere"

\* A config file exists when a variable is defined in it.
FileExists(vs, file) == \E i \in 1..Len(vs) : vs[i].src = FileSource(file)

dotenv_values(vs, file) == SourceDict(vs, FileSource(file))

auto_discover(vs, args) ==
    IF \E i \in 1..Len(args) : args[i] = Opt("--config")
    THEN LET index == CHOOSE i \in 1..Len(args) : args[i] = Opt("--config") /\ \A j \in 1..(i - 1) : args[j] # Opt("--config")
         IN  IF index = Len(args) THEN [exc |-> "IndexError", cli_config |-> "None"]
             ELSE LET next_arg == TokenText(args[index + 1])
                  IN  [exc |-> "none", cli_config |-> IF FileExists(vs, next_arg) THEN next_arg ELSE "None"]
    ELSE [exc |-> "none", cli_config |-> "None"]

build_environment_values(vs, source, cli_file) ==
    LET os_environ == SourceDict(vs, "os")
        with_user == IF FileExists(vs, UserConfig) THEN DictUpdate(os_environ, dotenv_values(vs, UserConfig)) ELSE os_environ
        with_project == IF source /\ FileExists(vs, ProjectConfig) THEN DictUpdate(with_user, dotenv_values(vs, ProjectConfig)) ELSE with_user
    IN  IF cli_file = "None" THEN [exc |-> "none", env_values |-> with_project]
        ELSE IF ~FileExists(vs, cli_file) THEN [exc |-> "FileNotFoundError", env_values |-> <<>>]
        ELSE [exc |-> "none", env_values |-> DictUpdate(with_project, dotenv_values(vs, cli_file))]

ValueError == [PNone EXCEPT !.type = "ValueError"]

\* The value load_environment_settings stores for a stripped, non-blank raw value.
env_parsed_value_SequenceFirst(config_name, stripped) ==
    LET lowered == Join(Lower(stripped))
        split == ShlexSplit(stripped)
    IN  IF lowered \in {"true", "false"} THEN PBool(lowered = "true")
        ELSE IF config_name \in ENV_SEQUENCE_OPTIONS THEN
            IF ~split.ok THEN ValueError
            ELSE IF config_name = "userdata_defines"
                 THEN PPairs([i \in 1..Len(split.tokens) |-> parse_user_define(split.tokens[i])])
                 ELSE PList([i \in 1..Len(split.tokens) |-> Join(split.tokens[i])])
        ELSE IF IsNumeric(stripped) THEN PInt(ToInt(stripped))
        ELSE PStr(Join(stripped))
env_parsed_value(config_name, stripped) ==
    LET lowered == Join(Lower(stripped))
        split == ShlexSplit(stripped)
    IN  IF lowered \in {"true", "false"} THEN PBool(lowered = "true")
        ELSE IF IsNumeric(stripped) THEN PInt(ToInt(stripped))
        ELSE IF config_name \in ENV_SEQUENCE_OPTIONS THEN
            IF ~split.ok THEN ValueError
            ELSE IF config_name = "userdata_defines"
                 THEN PPairs([i \in 1..Len(split.tokens) |-> parse_user_define(split.tokens[i])])
                 ELSE PList([i \in 1..Len(split.tokens) |-> Join(split.tokens[i])])
        ELSE PStr(Join(stripped))

\* The loop of load_environment_settings over env_values.items().
RECURSIVE load_environment_settings(_, _)
load_environment_settings(items, d) ==
    IF items = <<>> THEN [exc |-> "none", defaults |-> d]
    ELSE LET env_var_lowered == Lower(Head(items).key)
             config_name == Join(SubSeq(env_var_lowered, Len(ENV_PREFIX) + 1, Len(env_var_lowered)))
             stripped == Strip(Head(items).value)
             parsed == env_parsed_value(config_name, stripped)
         IN  IF ~StartsWith(env_var_lowered, ENV_PREFIX) THEN load_environment_settings(Tail(items), d)
             ELSE IF config_name = "" THEN load_environment_settings(Tail(items), d)
             ELSE IF config_name \in ENV_EXCLUDED_OPTIONS THEN [exc |-> "ConfigError", defaults |-> d]
             ELSE IF stripped = <<>> THEN load_environment_settings(Tail(items), d)
             ELSE IF parsed = ValueError THEN [exc |-> "ValueError", defaults |-> d]
             ELSE load_environment_settings(Tail(items), DictSet(d, config_name, parsed))

\* The options of the parsers the model's command lines use: OPTIONS of
\* constants.py and the engine's options iter_behave_options adds.
OptionAction(opt) ==
    CASE opt = "--stage" -> [dest |-> "stage", action |-> "store"]
      [] opt = "--stop" -> [dest |-> "stop", action |-> "store_true"]
      [] opt = "--tags" -> [dest |-> "tags", action |-> "append"]
      [] opt = "--config" -> [dest |-> "config", action |-> "store"]

\* argparse over a parser whose defaults were set from `ns`: a store option
\* replaces the default, an append option appends to a copy of it.
RECURSIVE parse_args_KeepsDefault(_, _)
parse_args_KeepsDefault(args, ns) ==
    IF args = <<>> THEN [exc |-> "none", namespace |-> ns]
    ELSE IF Head(args).kind = "word" THEN parse_args_KeepsDefault(Tail(args), ns)
    ELSE LET tok == Head(args)
             act == OptionAction(tok.opt)
             attached == tok.kind = "option=value"
             value == IF attached THEN tok.text ELSE args[2].text
             rest == IF attached THEN Tail(args) ELSE Tail(Tail(args))
             items == Get(ns, act.dest)
             set == items.type \notin {"None", "missing"}
         IN  IF act.action = "store_true" THEN
                 IF attached THEN [exc |-> "SystemExit", namespace |-> ns]
                 ELSE parse_args_KeepsDefault(Tail(args), IF set THEN ns ELSE DictSet(ns, act.dest, PBool(TRUE)))
             ELSE IF ~attached /\ (Len(args) < 2 \/ args[2].kind # "word") THEN [exc |-> "SystemExit", namespace |-> ns]
             ELSE IF act.action = "store" THEN parse_args_KeepsDefault(rest, IF set THEN ns ELSE DictSet(ns, act.dest, PStr(value)))
             ELSE IF items.type \in {"None", "missing"} THEN parse_args_KeepsDefault(rest, DictSet(ns, act.dest, PList(<<value>>)))
             ELSE IF items.type = "list" THEN parse_args_KeepsDefault(rest, DictSet(ns, act.dest, PList(Append(items.list, value))))
             ELSE [exc |-> "AttributeError", namespace |-> ns]
RECURSIVE parse_args(_, _)
parse_args(args, ns) ==
    IF args = <<>> THEN [exc |-> "none", namespace |-> ns]
    ELSE IF Head(args).kind = "word" THEN parse_args(Tail(args), ns)
    ELSE LET tok == Head(args)
             act == OptionAction(tok.opt)
             attached == tok.kind = "option=value"
             value == IF attached THEN tok.text ELSE args[2].text
             rest == IF attached THEN Tail(args) ELSE Tail(Tail(args))
             items == Get(ns, act.dest)
         IN  IF act.action = "store_true" THEN
                 IF attached THEN [exc |-> "SystemExit", namespace |-> ns]
                 ELSE parse_args(Tail(args), DictSet(ns, act.dest, PBool(TRUE)))
             ELSE IF ~attached /\ (Len(args) < 2 \/ args[2].kind # "word") THEN [exc |-> "SystemExit", namespace |-> ns]
             ELSE IF act.action = "store" THEN parse_args(rest, DictSet(ns, act.dest, PStr(value)))
             ELSE IF items.type \in {"None", "missing"} THEN parse_args(rest, DictSet(ns, act.dest, PList(<<value>>)))
             ELSE IF items.type = "list" THEN parse_args(rest, DictSet(ns, act.dest, PList(Append(items.list, value))))
             ELSE [exc |-> "AttributeError", namespace |-> ns]

\* Configuration.systest_defaults and the overrides of Configuration.defaults.
make_defaults ==
    << [key |-> "suites_directory", value |-> PStr(".")],
       [key |-> "suite", value |-> PNone],
       [key |-> "suite_create", value |-> PNone],
       [key |-> "cycle_id", value |-> PNone],
       [key |-> "runner", value |-> PStr("systest.systest_behave.runner:SystestRunner")],
       [key |-> "logging_level", value |-> PStr("ERROR")] >>

RunnerIdle ==
    /\ paths = <<>> /\ base_dir = EmptyStr /\ stop = FALSE /\ reporters = <<>>
    /\ original_paths = <<>> /\ feature_locations = <<>> /\ formatters = <<>>
    /\ hooks = {} /\ step_registry = {} /\ aborted = FALSE /\ failed = 0 /\ area_index = 1
    /\ pc = "idle" /\ exc = "none" /\ result = -1 /\ start_paths = <<>> /\ start_base_dir = EmptyStr
    /\ resolved = <<>> /\ started = <<>> /\ engine_runs = <<>> /\ outcomes = <<>>
    /\ invoked = NoCalls /\ reached = NoCalls

\* The program is started with some variables defined and some command line.
\* An OS environment that defines a setting under two keys differing in
\* letter case, and a user config that defines it under one of them.
CaseVariantEnvironment ==
    << Var("os",   <<"S", "Y", "S", "T", "E", "S", "T", "_", "S", "T", "A", "G", "E">>, <<"m", "e", "r", "c", "u", "r", "y">>),
       Var("os",   <<"s", "y", "s", "t", "e", "s", "t", "_", "s", "t", "a", "g", "e">>, <<"p", "l", "u", "t", "o">>),
       Var("user", <<"S", "Y", "S", "T", "E", "S", "T", "_", "S", "T", "A", "G", "E">>, <<"v", "e", "n", "u", "s">>) >>

LoadInit ==
    /\ variables \in SeqsUpTo(VariablePool, MaxVars) \cup {CaseVariantEnvironment}
    /\ from_source \in IF FileExists(variables, ProjectConfig) THEN BOOLEAN ELSE {FALSE}
    /\ command_args \in {c \o f : c \in IF FileExists(variables, CliEnv) THEN ConfigArgs ELSE {<<>>}, f \in FlagArgs}
    /\ cli_config = "None"
    /\ env_values = <<>>
    /\ defaults = <<>>
    /\ namespace = <<>>
    /\ load_pc = "start"
    /\ load_exc = "none"
    /\ RunnerIdle /\ ValidateIdle /\ MainIdle

\* auto_discover(command_args) and make_defaults().
AutoDiscover ==
    /\ load_pc = "start"
    /\ LET found == auto_discover(variables, command_args)
       IN  /\ cli_config' = found.cli_config
           /\ load_exc' = found.exc
           /\ load_pc' = IF found.exc = "none" THEN "discovered" ELSE "raised"
    /\ defaults' = make_defaults
    /\ UNCHANGED <<variables, from_source, command_args, env_values, namespace>>
    /\ UNCHANGED <<runner_vars, validate_vars, main_vars>>

\* build_environment_values(cli_file), the first statement of load_environment_settings.
BuildEnvironmentValues ==
    /\ load_pc = "discovered"
    /\ LET built == build_environment_values(variables, from_source, cli_config)
       IN  /\ env_values' = built.env_values
           /\ load_exc' = built.exc
           /\ load_pc' = IF built.exc = "none" THEN "built" ELSE "raised"
    /\ UNCHANGED <<variables, from_source, command_args, cli_config, defaults, namespace>>
    /\ UNCHANGED <<runner_vars, validate_vars, main_vars>>

\* The loop of load_environment_settings.
LoadEnvironmentSettings ==
    /\ load_pc = "built"
    /\ LET loaded == load_environment_settings(env_values, defaults)
       IN  /\ defaults' = loaded.defaults
           /\ load_exc' = loaded.exc
           /\ load_pc' = IF loaded.exc = "none" THEN "loaded" ELSE "raised"
    /\ UNCHANGED <<variables, from_source, command_args, cli_config, env_values, namespace>>
    /\ UNCHANGED <<runner_vars, validate_vars, main_vars>>

\* parser.set_defaults(**defaults) and the parsing of the command line,
\* steps 2 to 5 of Configuration.__init__.
ParseArguments ==
    /\ load_pc = "loaded"
    /\ LET parsed == parse_args(command_args, defaults)
       IN  /\ namespace' = parsed.namespace
           /\ load_exc' = parsed.exc
           /\ load_pc' = IF parsed.exc = "none" THEN "parsed" ELSE "raised"
    /\ UNCHANGED <<variables, from_source, command_args, cli_config, env_values, defaults>>
    /\ UNCHANGED <<runner_vars, validate_vars, main_vars>>

LoadNext == AutoDiscover \/ BuildEnvironmentValues \/ LoadEnvironmentSettings \/ ParseArguments

LoadSpec == LoadInit /\ [][LoadNext]_vars

----
\* Claims about the loading of variables

Sources == {"os", "user", "project", "cli"}

Rank(src) == CASE src = "os" -> 1 [] src = "user" -> 2 [] src = "project" -> 3 [] src = "cli" -> 4

\* The file the command line names with --config, in either form the
\* parser accepts, or "None".
NamedConfig ==
    IF \E i \in 1..Len(command_args) : command_args[i].opt = "--config"
    THEN LET i == CHOOSE i \in 1..Len(command_args) : command_args[i].opt = "--config"
         IN  IF command_args[i].kind = "option=value" THEN command_args[i].text ELSE command_args[i + 1].text
    ELSE "None"

\* The sources the program is to read in this run.
InEffect(src) ==
    \/ src \in {"os", "user"}
    \/ src = "project" /\ from_source
    \/ src = "cli" /\ NamedConfig = CliEnv

Holders(key) == {src \in Sources : InEffect(src) /\ HasKey(SourceDict(variables, src), key)}

Topmost(key) == CHOOSE src \in Holders(key) : \A other \in Holders(key) : Rank(other) <= Rank(src)

EnvironmentBuilt == load_pc \in {"built", "loaded", "parsed"} \/ (load_pc = "raised" /\ load_exc # "IndexError")

\* C13: once the environment values are built, a key that several of the
\* sources in effect define (OS environment, user config, project config in
\* a source checkout, the file named by --config) carries the raw value of
\* the highest-precedence source that defines it.
C13_HighestSourceWins ==
    EnvironmentBuilt =>
        \A i \in 1..Len(variables) :
            LET key == variables[i].key
            IN  Cardinality(Holders(key)) >= 2 =>
                    /\ HasKey(env_values, key)
                    /\ Get(env_values, key) = Get(SourceDict(variables, Topmost(key)), key)

\* The setting a variable of env_values names, "" when it names none.
SettingName(key) ==
    IF StartsWith(Lower(key), ENV_PREFIX) THEN Join(SubSeq(Lower(key), Len(ENV_PREFIX) + 1, Len(key))) ELSE ""

\* The entries of env_values that supply the setting `name`.
Supplying(name) ==
    {i \in 1..Len(env_values) : SettingName(env_values[i].key) = name /\ Strip(env_values[i].value) # <<>>}

EnvSupplies(name) == name # "" /\ Supplying(name) # {}

CliSupplies(name) == \E i \in 1..Len(command_args) : command_args[i].kind # "word" /\ OptionAction(command_args[i].opt).dest = name

ScalarSettings == {"stage", "stop"}

\* The value the command line gives a scalar setting.
CliScalar(name) == CASE name = "stage" -> PStr("cli_stage") [] name = "stop" -> PBool(TRUE)

\* C14: after the command line is parsed, a scalar setting outside the
\* exclusion set that both a namespaced variable and a command line flag
\* supply has the flag's value.
C14_CliFlagWinsScalar ==
    load_pc = "parsed" =>
        \A name \in ScalarSettings \ ENV_EXCLUDED_OPTIONS :
            (EnvSupplies(name) /\ CliSupplies(name)) => Get(namespace, name) = CliScalar(name)

C14_Witness ==
    /\ load_pc = "parsed"
    /\ CliSupplies("stage") /\ CliSupplies("stop")
    /\ Get(defaults, "stage") = PStr("mercury")
    /\ Get(defaults, "stop") = PBool(FALSE)
    /\ Get(namespace, "stage") = PStr("cli_stage")
    /\ Get(namespace, "stop") = PBool(TRUE)

SequenceSettings == {"tags"}

\* The values the command line gives a sequence setting, in order.
CliList(name) ==
    LET at == {i \in 1..Len(command_args) : command_args[i].kind # "word" /\ OptionAction(command_args[i].opt).dest = name}
    IN  IF at = {} THEN <<>> ELSE <<"@cli">>

\* C15: after the command line is parsed, a sequence setting that both the
\* command line and a namespaced variable supply is the command line's
\* values followed by the variable's values.
C15_CliListPrepended ==
    load_pc = "parsed" =>
        \A name \in SequenceSettings :
            (EnvSupplies(name) /\ CliSupplies(name) /\ Get(defaults, name).type = "list") =>
                Get(namespace, name) = PList(CliList(name) \o Get(defaults, name).list)

LoadingEnded == load_pc \in {"loaded", "parsed", "raised"}

\* C16: once the loading of variables has ended, if a source in effect
\* defines a namespaced variable that names a setting of the exclusion set,
\* whatever its value, the loading has raised a configuration error.
C16_ExcludedAlwaysRejected ==
    LoadingEnded =>
        \A i \in 1..Len(variables) :
            (InEffect(variables[i].src) /\ SettingName(variables[i].key) \in ENV_EXCLUDED_OPTIONS) =>
                load_exc = "ConfigError"

\* The value expected for a setting from a raw value, written out for the
\* raw values of VariablePool.
ExpectedValue(name, raw) ==
    CASE raw = "False" -> PBool(FALSE)
      [] raw = " 12 " -> PInt(12)
      [] raw = "12" -> PInt(12)
      [] raw = "@a  \"@b c\"" /\ name \in ENV_SEQUENCE_OPTIONS -> PList(<<"@a", "@b c">>)
      [] raw = "k=v w" /\ name = "userdata_defines" -> PPairs(<< <<"k", "v">>, <<"w", "true">> >>)
      [] raw \in {"mercury", "venus", "earth", "mars", "pluto"} /\ name \notin ENV_SEQUENCE_OPTIONS -> PStr(raw)

LastSupplying(name) == CHOOSE i \in Supplying(name) : \A j \in Supplying(name) : j <= i

----
\* Validation of the configuration (configuration.py, suite_manager.py)
\*
\* An optional value is a sequence: <<>> is None, <<x>> is the value x.

None == <<>>
Some(x) == <<x>>

SUITE_SUFFIX == <<"_", "s", "u", "i", "t", "e">>
SUITE_FEATURES_FOLDER == "features"
SUITE_SUPPORT_FOLDER == "support"
VERSION == "1.0.0"

SuitesDirectory == "suites"

EndsWith(s, suffix) == Len(s) >= Len(suffix) /\ SubSeq(s, Len(s) - Len(suffix) + 1, Len(s)) = suffix

\* Path.name: what follows the last separator.
RECURSIVE PathName(_)
PathName(s) ==
    IF \E i \in 1..Len(s) : s[i] = "/" THEN PathName(SubSeq(s, (CHOOSE i \in 1..Len(s) : s[i] = "/") + 1, Len(s))) ELSE s

\* The suite names the command line gives.
SuiteArgs == { None, Some(<<"d", "e", "m", "o">>), Some(<<"d", "e", "m", "o", "_", "s", "u", "i", "t", "e">>),
               Some(<<"a", "/", "b">>) }

DemoSuite == "suites/demo_suite"

\* The states of the disk: a directory exists only inside an existing one.
Disks ==
    {d \in SUBSET {SuitesDirectory, DemoSuite, DemoSuite \o "/features", DemoSuite \o "/support", "suites/taken"} :
        /\ d # {} => SuitesDirectory \in d
        /\ (d \cap {DemoSuite \o "/features", DemoSuite \o "/support"}) # {} => DemoSuite \in d}

\* suite.conf: absent, or its lines.  A line is NAME=VALUE, or it binds no
\* name (a comment, a blank line).
NoFile == <<[key |-> "", value |-> "no file"]>>
ConfComment == [key |-> "", value |-> "# comment"]
ConfBlank == [key |-> "", value |-> ""]
SuiteConfs ==
    { NoFile,
      <<[key |-> "framework_version", value |-> "2.3.1"]>>,
      <<[key |-> "framework_version", value |-> "banana"]>>,
      <<[key |-> "framework_version", value |-> ""]>>,
      <<ConfComment, [key |-> "support_folder", value |-> "helpers"], ConfBlank>>,
      <<[key |-> "features_folder", value |-> "features"], [key |-> "timeout", value |-> ""]>>,
      <<[key |-> "timeout", value |-> "30"]>> }

\* dotenv_values of suite.conf: the bindings of the file, the last value of
\* a name standing at the place of its first.
suite_conf_values(lines) == DictUpdate(<<>>, SelectSeq(lines, LAMBDA line : line.key # ""))

\* SuiteConfig(**config): a NamedTuple of three fields; any other keyword
\* is a TypeError.
SuiteConfigFields == {"framework_version", "features_folder", "support_folder"}
SuiteConfig(config) ==
    IF \E i \in 1..Len(config) : config[i].key \notin SuiteConfigFields
    THEN [exc |-> "TypeError", value |-> <<>>]
    ELSE [exc |-> "none", value |-> config]

\* parse_version accepts a semantic version.
parse_version(version) == IF version \in {VERSION, "2.3.1"} THEN "ok" ELSE "UnknownVersionType"

RECURSIVE UpdateNonEmpty(_, _)
UpdateNonEmpty(config, lines) ==
    IF lines = <<>> THEN config
    ELSE UpdateNonEmpty(IF Head(lines).value # "" THEN DictSet(config, Head(lines).key, Head(lines).value) ELSE config,
                        Tail(lines))

parse_suite_conf(conf) ==
    LET config == << [key |-> "framework_version", value |-> VERSION],
                     [key |-> "features_folder", value |-> SUITE_FEATURES_FOLDER],
                     [key |-> "support_folder", value |-> SUITE_SUPPORT_FOLDER] >>
    IN  SuiteConfig(IF conf = NoFile THEN config ELSE UpdateNonEmpty(config, suite_conf_values(conf)))

NoSuiteData == [name |-> "", suite |-> "", path |-> "", features_path |-> "", support_path |-> "", framework_version |-> ""]

create_suite_data(suite_name, suites_directory, conf) ==
    LET stripped == IF EndsWith(suite_name, SUITE_SUFFIX) THEN SubSeq(suite_name, 1, Len(suite_name) - Len(SUITE_SUFFIX)) ELSE suite_name
        dir_name == stripped \o SUITE_SUFFIX
        suite_path == suites_directory \o "/" \o Join(dir_name)
        suite_config == parse_suite_conf(conf)
    IN  IF PathName(dir_name) # dir_name THEN [exc |-> "SuiteManagerError", data |-> NoSuiteData]
        ELSE IF suite_config.exc # "none" THEN [exc |-> suite_config.exc, data |-> NoSuiteData]
        ELSE [exc |-> "none",
              data |-> [name |-> Join(stripped), suite |-> Join(dir_name), path |-> suite_path,
                        features_path |-> suite_path \o "/" \o Get(suite_config.value, "features_folder"),
                        support_path |-> suite_path \o "/" \o Get(suite_config.value, "support_folder"),
                        framework_version |-> Get(suite_config.value, "framework_version")]]

suite_exists(data, d) == data.path \in d

\* The checks the validation makes, in the order of the code.
NoError == [type |-> "none", about |-> ""]
Error(type, about) == [type |-> type, about |-> about]

is_utility_mode_NoLangHelp(s) ==
    \/ s.version
    \/ s.tags_help
    \/ s.lang = Some("help")
    \/ s.lang_list
    \/ s.format # None /\ \E i \in 1..Len(s.format[1]) : s.format[1][i] = "help"
    \/ s.create_suite_name # None
is_utility_mode(s) ==
    \/ s.version
    \/ s.tags_help
    \/ s.lang = Some("help")
    \/ s.lang_list
    \/ s.lang_help # None
    \/ s.format # None /\ \E i \in 1..Len(s.format[1]) : s.format[1][i] = "help"
    \/ s.create_suite_name # None

setup_suites(s, d) == IF s.suites_directory \in d THEN NoError ELSE Error("ConfigError", "suites_root")

setup_suite_create(s, d) ==
    IF s.create_suite_name = None THEN NoError
    ELSE IF s.create_suite_name[1] = "" THEN Error("SystemExit", "scaffold")
    ELSE IF (s.suites_directory \o "/" \o s.create_suite_name[1]) \in d THEN Error("SystemExit", "scaffold")
    ELSE NoError

SuiteOutcome(error, checks, data, version) == [exc |-> error, checked |-> checks, suite_data |-> data, run_version |-> version]

setup_suite_SupportFirst(s, d, conf) ==
    LET created == create_suite_data(s.suite[1], s.suites_directory, conf)
        data == created.data
    IN  IF s.suite = None THEN
            IF ~is_utility_mode(s) THEN SuiteOutcome(Error("SystemExit", "suite_present"), <<"suite_present">>, NoSuiteData, "")
            ELSE SuiteOutcome(NoError, <<"suite_present">>, NoSuiteData, "")
        ELSE IF created.exc # "none" THEN
            SuiteOutcome(Error(created.exc, "suite_resolve"), <<"suite_present", "suite_resolve">>, NoSuiteData, "")
        ELSE IF ~suite_exists(data, d) THEN
            SuiteOutcome(Error("ConfigError", "suite_dir"), <<"suite_present", "suite_resolve", "suite_dir">>, data, "")
        ELSE IF data.support_path \notin d THEN
            SuiteOutcome(Error("ConfigError", "support"), <<"suite_present", "suite_resolve", "suite_dir", "support">>, data, "")
        ELSE IF data.features_path \notin d THEN
            SuiteOutcome(Error("ConfigError", "features"), <<"suite_present", "suite_resolve", "suite_dir", "support", "features">>, data, "")
        ELSE IF parse_version(data.framework_version) # "ok" THEN
            SuiteOutcome(Error("ConfigError", "version"), <<"suite_present", "suite_resolve", "suite_dir", "features", "support", "version">>, data, "")
        ELSE SuiteOutcome(NoError, <<"suite_present", "suite_resolve", "suite_dir", "features", "support", "version">>, data, data.framework_version)
setup_suite(s, d, conf) ==
    LET created == create_suite_data(s.suite[1], s.suites_directory, conf)
        data == created.data
    IN  IF s.suite = None THEN
            IF ~is_utility_mode(s) THEN SuiteOutcome(Error("SystemExit", "suite_present"), <<"suite_present">>, NoSuiteData, "")
            ELSE SuiteOutcome(NoError, <<"suite_present">>, NoSuiteData, "")
        ELSE IF created.exc # "none" THEN
            SuiteOutcome(Error(created.exc, "suite_resolve"), <<"suite_present", "suite_resolve">>, NoSuiteData, "")
        ELSE IF ~suite_exists(data, d) THEN
            SuiteOutcome(Error("ConfigError", "suite_dir"), <<"suite_present", "suite_resolve", "suite_dir">>, data, "")
        ELSE IF data.features_path \notin d THEN
            SuiteOutcome(Error("ConfigError", "features"), <<"suite_present", "suite_resolve", "suite_dir", "features">>, data, "")
        ELSE IF data.support_path \notin d THEN
            SuiteOutcome(Error("ConfigError", "support"), <<"suite_present", "suite_resolve", "suite_dir", "features", "support">>, data, "")
        ELSE IF parse_version(data.framework_version) # "ok" THEN
            SuiteOutcome(Error("ConfigError", "version"), <<"suite_present", "suite_resolve", "suite_dir", "features", "support", "version">>, data, "")
        ELSE SuiteOutcome(NoError, <<"suite_present", "suite_resolve", "suite_dir", "features", "support", "version">>, data, data.framework_version)

\* The modes of the command line: at most one of the utility options, or a
\* plain format.
Modes == {"run", "version", "tags_help", "lang", "lang_list", "lang_help", "format_help", "format"}

Settings(mode, suite, create, cycle) ==
    [ suites_directory |-> SuitesDirectory,
      suite |-> suite,
      create_suite_name |-> create,
      cycle_id |-> cycle,
      version |-> mode = "version",
      tags_help |-> mode = "tags_help",
      lang |-> IF mode = "lang" THEN Some("help") ELSE None,
      lang_list |-> mode = "lang_list",
      lang_help |-> IF mode = "lang_help" THEN Some("fr") ELSE None,
      format |-> IF mode = "format_help" THEN Some(<<"help">>) ELSE IF mode = "format" THEN Some(<<"pretty">>) ELSE None ]

runner_rest == <<paths, base_dir, stop, original_paths, feature_locations,
                 formatters, hooks, step_registry, aborted, failed, area_index, pc, exc, result,
                 start_paths, start_base_dir, resolved, started, engine_runs, outcomes, invoked, reached>>

\* The command line is parsed; the validation is about to start.
ValidateInit ==
    /\ settings \in {Settings(mode, suite, create, cycle) :
                        mode \in Modes, suite \in SuiteArgs,
                        create \in {None, Some(""), Some("new"), Some("taken")},
                        cycle \in {None, Some("SIR-R3")}}
    /\ disk \in Disks
    /\ suite_conf \in IF DemoSuite \in disk THEN SuiteConfs ELSE {NoFile}
    /\ suite_data = NoSuiteData
    /\ run_version = VERSION
    /\ checked = <<>>
    /\ val_pc = "setup_suites"
    /\ val_exc = NoError
    /\ paths = <<>> /\ base_dir = EmptyStr /\ stop = FALSE /\ reporters = <<"summary">>
    /\ original_paths = <<>> /\ feature_locations = <<>> /\ formatters = <<>>
    /\ hooks = {} /\ step_registry = {} /\ aborted = FALSE /\ failed = 0 /\ area_index = 1
    /\ pc = "idle" /\ exc = "none" /\ result = -1 /\ start_paths = <<>> /\ start_base_dir = EmptyStr
    /\ resolved = <<>> /\ started = <<>> /\ engine_runs = <<>> /\ outcomes = <<>>
    /\ invoked = NoCalls /\ reached = NoCalls
    /\ LoadIdle /\ MainIdle

SetupSuites ==
    /\ val_pc = "setup_suites"
    /\ checked' = Append(checked, "suites_root")
    /\ val_exc' = setup_suites(settings, disk)
    /\ val_pc' = IF val_exc' = NoError THEN "setup_suite_create" ELSE "raised"
    /\ UNCHANGED <<settings, disk, suite_conf, suite_data, run_version>>
    /\ UNCHANGED <<runner_vars, load_vars, main_vars>>

SetupSuiteCreate ==
    /\ val_pc = "setup_suite_create"
    /\ checked' = Append(checked, "scaffold")
    /\ val_exc' = setup_suite_create(settings, disk)
    /\ val_pc' = IF val_exc' = NoError THEN "setup_suite" ELSE "raised"
    /\ UNCHANGED <<settings, disk, suite_conf, suite_data, run_version>>
    /\ UNCHANGED <<runner_vars, load_vars, main_vars>>

SetupSuite ==
    /\ val_pc = "setup_suite"
    /\ LET outcome == setup_suite(settings, disk, suite_conf)
       IN  /\ checked' = checked \o outcome.checked
           /\ val_exc' = outcome.exc
           /\ suite_data' = outcome.suite_data
           /\ run_version' = IF outcome.run_version = "" THEN run_version ELSE outcome.run_version
           /\ val_pc' = IF outcome.exc = NoError THEN "setup_reporters" ELSE "raised"
    /\ UNCHANGED <<settings, disk, suite_conf>>
    /\ UNCHANGED <<runner_vars, load_vars, main_vars>>

\* setup_systest_reporters() and wrap_reporters().
SetupReporters ==
    /\ val_pc = "setup_reporters"
    /\ reporters' = wrap_reporters(setup_systest_reporters(reporters, settings.cycle_id # None))
    /\ val_pc' = "done"
    /\ UNCHANGED <<settings, disk, suite_conf, suite_data, run_version, checked, val_exc>>
    /\ UNCHANGED <<runner_rest, load_vars, main_vars>>

ValidateNext == SetupSuites \/ SetupSuiteCreate \/ SetupSuite \/ SetupReporters

ValidateSpec == ValidateInit /\ [][ValidateNext]_vars

----
\* Claims about the validation

CheckOrder == <<"suites_root", "scaffold", "suite_present", "suite_resolve", "suite_dir", "features", "support", "version">>

IsPrefixOf(s, t) == Len(s) <= Len(t) /\ SubSeq(t, 1, Len(s)) = s

\* The utility modes, as the command line shows them.
UtilityRequested ==
    \/ settings.version \/ settings.tags_help \/ settings.lang_list
    \/ settings.lang = Some("help") \/ settings.lang_help = Some("fr")
    \/ settings.format = Some(<<"help">>)
    \/ settings.create_suite_name # None

\* The value suite.conf gives a setting: that of its line with a non-empty
\* value, the framework default without one.
Declared(key, default) ==
    IF \E i \in 1..Len(suite_conf) : suite_conf[i].key = key /\ suite_conf[i].value # ""
    THEN suite_conf[CHOOSE i \in 1..Len(suite_conf) : suite_conf[i].key = key /\ suite_conf[i].value # ""].value
    ELSE default

\* What makes each check fail, read off the command line, the disk and suite.conf.
Fails(check) ==
    CASE check = "suites_root" -> SuitesDirectory \notin disk
      [] check = "scaffold" -> settings.create_suite_name \in {Some(""), Some("taken")} /\ (settings.create_suite_name = Some("taken") => "suites/taken" \in disk)
      [] check = "suite_present" -> settings.suite = None /\ ~UtilityRequested
      [] check = "suite_resolve" -> settings.suite = Some(<<"a", "/", "b">>) \/ suite_conf = <<[key |-> "timeout", value |-> "30"]>>
      [] check = "suite_dir" -> DemoSuite \notin disk
      [] check = "features" -> (DemoSuite \o "/" \o Declared("features_folder", SUITE_FEATURES_FOLDER)) \notin disk
      [] check = "support" -> (DemoSuite \o "/" \o Declared("support_folder", SUITE_SUPPORT_FOLDER)) \notin disk
      [] check = "version" -> suite_conf = <<[key |-> "framework_version", value |-> "banana"]>>

\* The checks a run is to make: without a suite the validation ends with
\* the third one.
ChecksDue == IF settings.suite = None THEN 3 ELSE Len(CheckOrder)

FirstFailing ==
    IF \E i \in 1..ChecksDue : Fails(CheckOrder[i])
    THEN CHOOSE i \in 1..ChecksDue : Fails(CheckOrder[i]) /\ \A j \in 1..(i - 1) : ~Fails(CheckOrder[j])
    ELSE 0

\* C18: the checks are made in the fixed order suites root, scaffolding
\* target, suite presence and resolution with features before support,
\* framework version; the validation raises exactly when one of them fails,
\* the error is about the first failing one and no later check was made; a
\* suite with neither directory is reported for its features directory.
C18_ValidationOrder ==
    /\ IsPrefixOf(checked, CheckOrder)
    /\ val_pc = "raised" =>
           /\ FirstFailing # 0
           /\ val_exc.about = CheckOrder[FirstFailing]
           /\ checked = SubSeq(CheckOrder, 1, FirstFailing)
    /\ val_pc \in {"setup_reporters", "done"} => FirstFailing = 0 /\ val_exc = NoError
    /\ (val_pc = "raised" /\ Len(checked) >= 6
            /\ "suites/demo_suite/features" \notin disk /\ "suites/demo_suite/support" \notin disk) =>
           val_exc = Error("ConfigError", "features")

C18_Witness ==
    /\ val_pc = "raised"
    /\ DemoSuite \in disk
    /\ "suites/demo_suite/features" \notin disk /\ "suites/demo_suite/support" \notin disk
    /\ suite_data.features_path = "suites/demo_suite/features"
    /\ suite_conf = <<[key |-> "framework_version", value |-> "banana"]>>
    /\ val_exc = Error("ConfigError", "features")
    /\ checked = SubSeq(CheckOrder, 1, 6)

ValidationEnded == val_pc \in {"done", "raised"}

SuiteDirectoryChecks == {"suite_resolve", "suite_dir", "features", "support", "version"}

NoSuiteError == val_pc = "raised" /\ val_exc = Error("SystemExit", "suite_present")

CompletesWithoutSuite ==
    /\ val_pc = "done"
    /\ suite_data = NoSuiteData
    /\ \A i \in 1..Len(checked) : checked[i] \notin SuiteDirectoryChecks

\* C19 as claimed: when no suite is specified, the validation ends with the
\* parser's missing-suite error exactly when no utility mode is active, and
\* in every utility mode it completes without a suite and without a check
\* of a suite directory.
C19_NoSuiteOnlyInUtilityMode ==
    (ValidationEnded /\ settings.suite = None) =>
        /\ NoSuiteError <=> ~UtilityRequested
        /\ UtilityRequested => CompletesWithoutSuite

\* C19, amended: the same, for the runs in which the suites root exists and
\* the scaffolding target check passes.
C19_NoSuiteAfterEarlierChecks ==
    (ValidationEnded /\ settings.suite = None /\ ~Fails("suites_root") /\ ~Fails("scaffold")) =>
        /\ NoSuiteError <=> ~UtilityRequested
        /\ UtilityRequested => CompletesWithoutSuite

C19_Witness ==
    /\ val_pc = "done"
    /\ settings.suite = None
    /\ settings.lang_help = Some("fr")
    /\ settings.create_suite_name = None
    /\ checked = <<"suites_root", "scaffold", "suite_present">>
    /\ suite_data = NoSuiteData

----
\* main() (__main__.py) and install_suite_dependencies (suite_manager.py)

SuitePath == DemoSuite
LibPath == DemoSuite \o "/.lib"

\* How the program starts: a completion request, a Configuration that
\* raises, or a Configuration with the attributes main() reads.
MainConfig(argcomplete, raises, version, create) ==
    [argcomplete |-> argcomplete, raises |-> raises, version |-> version, create_suite_name |-> create,
     run_version |-> "2.3.1"]

MainConfigs ==
    {MainConfig(TRUE, "none", FALSE, None)}
    \cup {MainConfig(FALSE, e, FALSE, None) : e \in {"ConfigError", "SystemExit", "SuiteManagerError"}}
    \cup {MainConfig(FALSE, "none", v, c) : v \in BOOLEAN, c \in {None, Some("new"), Some("taken")}}

\* requirements.txt, line by line.  A requirement line is what
\* packaging.requirements.Requirement parses from it: an environment marker
\* (none, or one that evaluates true or false here), a project name and a
\* specifier (none, or an operator and a version); a line it cannot parse
\* raises InvalidRequirement.  Versions are numbered in their order.
Blank == [kind |-> "blank", marker |-> "none", name |-> <<>>, specifier |-> <<>>]
Comment == [kind |-> "comment", marker |-> "none", name |-> <<>>, specifier |-> <<>>]
Invalid == [kind |-> "invalid", marker |-> "none", name |-> <<>>, specifier |-> <<>>]
Requirement(marker, name, specifier) ==
    [kind |-> "requirement", marker |-> marker, name |-> name, specifier |-> specifier]
Specifier(op, version) == <<[op |-> op, version |-> version]>>

NoRequirementsFile == [is_file |-> FALSE, lines |-> <<>>]
RequirementsFile(lines) == [is_file |-> TRUE, lines |-> lines]

Distribution(name, version) == [name |-> name, version |-> version]

ProjectAB == <<"a", "-", "b">>
ProjectC == <<"c">>

RequirementFiles ==
    { NoRequirementsFile,
      RequirementsFile(<<>>),
      RequirementsFile(<<Comment, Blank>>),
      RequirementsFile(<<Comment, Requirement("none", <<"A", "_", ".", "b">>, <<>>)>>),
      RequirementsFile(<<Requirement("true", ProjectAB, Specifier(">=", 2))>>),
      RequirementsFile(<<Requirement("false", ProjectC, <<>>)>>),
      RequirementsFile(<<Requirement("none", ProjectAB, Specifier("==", 1)), Requirement("false", ProjectAB, <<>>)>>),
      RequirementsFile(<<Requirement("none", ProjectAB, Specifier("<", 2)), Invalid>>) }

Distributions ==
    { <<>>,
      <<Distribution(<<"a", "_", "B">>, 1)>>,
      <<Distribution(ProjectAB, 2), Distribution(ProjectAB, 1)>>,
      <<Distribution(ProjectC, 1), Distribution(<<"A", ".", "b">>, 1)>> }

\* packaging.utils.canonicalize_name: re.sub(r"[-_.]+", "-", name).lower().
RECURSIVE canonicalize_name(_)
canonicalize_name(name) ==
    IF name = <<>> THEN <<>>
    ELSE IF Head(name) \in {"-", "_", "."}
         THEN IF Len(name) > 1 /\ name[2] \in {"-", "_", "."}
              THEN canonicalize_name(Tail(name))
              ELSE <<"-">> \o canonicalize_name(Tail(name))
         ELSE <<LowerCh(Head(name))>> \o canonicalize_name(Tail(name))

\* _is_empty_or_only_comments.
_is_empty_or_only_comments(lines) == \A i \in 1..Len(lines) : lines[i].kind \in {"blank", "comment"}

\* The available_versions dictionary of _is_requirements_satisfied: the
\* first distribution of a canonical name gives its version.
RECURSIVE available_versions(_, _)
available_versions(dists, d) ==
    IF dists = <<>> THEN d
    ELSE LET key == canonicalize_name(Head(dists).name)
         IN  available_versions(Tail(dists),
                                IF HasKey(d, key) THEN d ELSE DictSet(d, key, Head(dists).version))

\* SpecifierSet.contains for a single clause.
contains(specifier, version) ==
    CASE specifier.op = "==" -> version = specifier.version
      [] specifier.op = ">=" -> version >= specifier.version
      [] specifier.op = "<" -> version < specifier.version

\* The loop of _is_requirements_satisfied over _parse_requirement_file.
RECURSIVE requirements_loop(_, _)
requirements_loop(lines, available) ==
    IF lines = <<>> THEN [exc |-> "none", satisfied |-> TRUE]
    ELSE LET req == Head(lines)
             key == canonicalize_name(req.name)
         IN  IF req.kind \in {"blank", "comment"} THEN requirements_loop(Tail(lines), available)
             ELSE IF req.kind = "invalid" THEN [exc |-> "InvalidRequirement", satisfied |-> FALSE]
             ELSE IF req.marker = "false" THEN [exc |-> "none", satisfied |-> FALSE]
             ELSE IF ~HasKey(available, key) THEN [exc |-> "none", satisfied |-> FALSE]
             ELSE IF req.specifier # <<>> /\ ~contains(req.specifier[1], Get(available, key))
                  THEN [exc |-> "none", satisfied |-> FALSE]
             ELSE requirements_loop(Tail(lines), available)

_is_requirements_satisfied(lines, dists) == requirements_loop(lines, available_versions(dists, <<>>))

\* What subprocess.run does: pip exits with 0, the executable is missing,
\* pip exits with another status, or the start fails otherwise.
PipOutcomes == {"ok", "FileNotFoundError", "CalledProcessError", "PermissionError"}

\* What run_behave does: it returns a status or raises.
BehaveOutcomes == {"0", "1", "ConfigError", "TagExpressionError", "NotSupportedWarning", "Exception"}

_call_pip_IgnoresExit(outcome) ==
    CASE outcome = "ok" -> "none"
      [] outcome = "FileNotFoundError" -> "PipError"
      [] outcome = "CalledProcessError" -> "none"
      [] OTHER -> outcome
_call_pip(outcome) ==
    CASE outcome = "ok" -> "none"
      [] outcome = "FileNotFoundError" -> "PipError"
      [] outcome = "CalledProcessError" -> "PipError"
      [] OTHER -> outcome

install_suite_dependencies(file, dists, outcome, path) ==
    IF ~file.is_file \/ _is_empty_or_only_comments(file.lines)
    THEN [exc |-> "none", calls |-> 0, sys_path |-> path]
    ELSE LET checked_requirements == _is_requirements_satisfied(file.lines, dists)
         IN  IF checked_requirements.exc # "none"
             THEN [exc |-> checked_requirements.exc, calls |-> 0, sys_path |-> path]
             ELSE IF checked_requirements.satisfied
             THEN [exc |-> "none", calls |-> 0, sys_path |-> path \cup {LibPath}]
             ELSE IF _call_pip(outcome) # "none"
             THEN [exc |-> _call_pip(outcome), calls |-> 1, sys_path |-> path]
             ELSE [exc |-> "none", calls |-> 1, sys_path |-> path \cup {LibPath}]

\* create_suite: the suite directory of that name exists already, or it is created.
create_suite_AlwaysExists(name) == "SuiteManagerError"
create_suite(name) == IF name = "taken" THEN "SuiteManagerError" ELSE "none"

MainInit ==
    /\ main_config \in MainConfigs
    /\ requirements_file \in RequirementFiles
    /\ distributions \in Distributions
    /\ pip \in PipOutcomes
    /\ pip_calls = 0
    /\ environ_run_version \in {"Unset", "0.9.0"}
    /\ sys_path \in {{}, {SuitePath}}
    /\ path_added = FALSE
    /\ behave_calls = 0
    /\ behave_outcome \in BehaveOutcomes
    /\ main_exc = "none"
    /\ main_pc = "start"
    /\ exit_status = -1
    /\ RunnerIdle /\ LoadIdle /\ ValidateIdle

\* is_argcomplete_request(), autocomplete(), Configuration(load_config=False).
MainStart ==
    /\ main_pc = "start"
    /\ IF main_config.argcomplete THEN main_pc' = "exit" /\ exit_status' = 0 /\ UNCHANGED main_exc
       ELSE IF main_config.raises # "none" THEN main_pc' = "except" /\ main_exc' = main_config.raises /\ UNCHANGED exit_status
       ELSE main_pc' = "utility" /\ UNCHANGED <<main_exc, exit_status>>
    /\ UNCHANGED <<main_config, requirements_file, distributions, pip, pip_calls, environ_run_version, sys_path, path_added,
                   behave_calls, behave_outcome>>
    /\ UNCHANGED <<runner_vars, load_vars, validate_vars>>

HandleUtilityFunctions ==
    /\ main_pc = "utility"
    /\ IF main_config.version THEN main_pc' = "exit" /\ exit_status' = 0 /\ UNCHANGED main_exc
       ELSE IF main_config.create_suite_name # None THEN
            IF create_suite(main_config.create_suite_name[1]) # "none"
            THEN main_pc' = "except" /\ main_exc' = create_suite(main_config.create_suite_name[1]) /\ UNCHANGED exit_status
            ELSE main_pc' = "exit" /\ exit_status' = 0 /\ UNCHANGED main_exc
       ELSE main_pc' = "environment" /\ UNCHANGED <<main_exc, exit_status>>
    /\ UNCHANGED <<main_config, requirements_file, distributions, pip, pip_calls, environ_run_version, sys_path, path_added,
                   behave_calls, behave_outcome>>
    /\ UNCHANGED <<runner_vars, load_vars, validate_vars>>

\* handle_test_environment: os.environ["SYSTEST_RUN_VERSION"] = config.run_version.
SetRunVersion ==
    /\ main_pc = "environment"
    /\ environ_run_version' = main_config.run_version
    /\ main_pc' = "install"
    /\ UNCHANGED <<main_config, requirements_file, distributions, pip, pip_calls, sys_path, path_added, behave_calls,
                   behave_outcome, main_exc, exit_status>>
    /\ UNCHANGED <<runner_vars, load_vars, validate_vars>>

InstallSuiteDependencies ==
    /\ main_pc = "install"
    /\ LET installed == install_suite_dependencies(requirements_file, distributions, pip, sys_path)
       IN  /\ pip_calls' = pip_calls + installed.calls
           /\ sys_path' = installed.sys_path
           /\ main_exc' = installed.exc
           /\ main_pc' = IF installed.exc = "none" THEN "path" ELSE "except"
    /\ UNCHANGED <<main_config, requirements_file, distributions, pip, environ_run_version, path_added, behave_calls,
                   behave_outcome, exit_status>>
    /\ UNCHANGED <<runner_vars, load_vars, validate_vars>>

\* handle_test_environment: the suite path is appended to sys.path.
AddSuitePath ==
    /\ main_pc = "path"
    /\ path_added' = (SuitePath \notin sys_path)
    /\ sys_path' = sys_path \cup {SuitePath}
    /\ main_pc' = "behave"
    /\ UNCHANGED <<main_config, requirements_file, distributions, pip, pip_calls, environ_run_version, behave_calls,
                   behave_outcome, main_exc, exit_status>>
    /\ UNCHANGED <<runner_vars, load_vars, validate_vars>>

\* run_behave(config) inside the with block.
RunBehave ==
    /\ main_pc = "behave"
    /\ behave_calls' = behave_calls + 1
    /\ main_pc' = "teardown"
    /\ UNCHANGED <<main_config, requirements_file, distributions, pip, pip_calls, environ_run_version, sys_path, path_added,
                   behave_outcome, main_exc, exit_status>>
    /\ UNCHANGED <<runner_vars, load_vars, validate_vars>>

\* The finally block of handle_test_environment, then the return of
\* run_systest or the exception of run_behave.
Teardown ==
    /\ main_pc = "teardown"
    /\ environ_run_version' = "Unset"
    /\ sys_path' = IF path_added THEN sys_path \ {SuitePath} ELSE sys_path
    /\ IF behave_outcome \in {"0", "1"}
       THEN main_pc' = "exit" /\ exit_status' = (IF behave_outcome = "0" THEN 0 ELSE 1) /\ UNCHANGED main_exc
       ELSE main_pc' = "except" /\ main_exc' = behave_outcome /\ UNCHANGED exit_status
    /\ UNCHANGED <<main_config, requirements_file, distributions, pip, pip_calls, path_added, behave_calls, behave_outcome>>
    /\ UNCHANGED <<runner_vars, load_vars, validate_vars>>

\* The except clauses of main(): every Exception ends in `return 1`; the
\* parser's SystemExit is not an Exception and leaves main() with status 2.
HandleException ==
    /\ main_pc = "except"
    /\ exit_status' = IF main_exc = "SystemExit" THEN 2 ELSE 1
    /\ main_pc' = "exit"
    /\ UNCHANGED <<main_config, requirements_file, distributions, pip, pip_calls, environ_run_version, sys_path, path_added,
                   behave_calls, behave_outcome, main_exc>>
    /\ UNCHANGED <<runner_vars, load_vars, validate_vars>>

MainNext ==
    \/ MainStart \/ HandleUtilityFunctions \/ SetRunVersion \/ InstallSuiteDependencies
    \/ AddSuitePath \/ RunBehave \/ Teardown \/ HandleException

MainSpec == MainInit /\ [][MainNext]_vars

----
\* Claims about main()

InstallationFailed == pip_calls > 0 /\ pip \in {"FileNotFoundError", "CalledProcessError"}

\* C20: once the installation of the dependencies has failed (pip missing
\* or pip exiting with a non-zero status), run_behave has not been called
\* and is not called, the only step left is the handling of the PipError,
\* and main() ends with status 1.
C20_InstallFailureStopsRun ==
    InstallationFailed =>
        /\ behave_calls = 0
        /\ main_exc = "PipError"
        /\ main_pc \in {"except", "exit"}
        /\ main_pc = "exit" => exit_status = 1

C20_Witness ==
    /\ main_pc = "exit"
    /\ ~_is_requirements_satisfied(requirements_file.lines, distributions).satisfied
    /\ pip = "CalledProcessError"
    /\ pip_calls = 1
    /\ behave_calls = 0
    /\ exit_status = 1

\* The run proper: main() got past the utility actions and entered
\* handle_test_environment.
RunEntered ==
    /\ ~main_config.argcomplete
    /\ main_config.raises = "none"
    /\ ~main_config.version
    /\ main_config.create_suite_name = None
    /\ main_pc \notin {"start", "utility", "environment"}

\* C21: from the moment the run sets SYSTEST_RUN_VERSION until the end of
\* run_behave the variable holds the suite's declared framework version
\* (config.run_version), and once the run has ended, by a returned status or
\* by any error (a failed installation included), the variable is unset.
C21_RunVersionScoped ==
    RunEntered =>
        /\ main_pc \in {"install", "path", "behave", "teardown"} => environ_run_version = main_config.run_version
        /\ main_pc \in {"except", "exit"} => environ_run_version = "Unset"

\* What does hold: the variable is unset at the end of every run that got
\* as far as run_behave, and is left set by a failed installation.
C21_UnsetAfterBehave ==
    (RunEntered /\ main_pc \in {"except", "exit"}) =>
        (environ_run_version = "Unset" <=> behave_calls > 0)

\* The requirements of the file, and the installed version of a project:
\* that of the first distribution carrying its canonical name.
RequirementLines == {requirements_file.lines[i] : i \in 1..Len(requirements_file.lines)} \ {Blank, Comment, Invalid}
Installed(name) == Get(available_versions(distributions, <<>>), canonicalize_name(name))

\* A requirement is unsatisfied when its package is missing or its installed
\* version lies outside the specifier; one whose marker evaluates false
\* counts as satisfied.
Unsatisfied(req) ==
    /\ req.marker # "false"
    /\ \/ ~HasKey(available_versions(distributions, <<>>), canonicalize_name(req.name))
       \/ req.specifier # <<>> /\ ~contains(req.specifier[1], Installed(req.name))

InstallReturned == RunEntered /\ main_pc # "install"

\* C22: once install_suite_dependencies has returned or raised, pip has been
\* started if and only if the requirements file holds an unsatisfied
\* requirement (a false marker counting as satisfied), and never more than
\* once.
C22_InstallerIffUnsatisfied ==
    InstallReturned =>
        /\ pip_calls > 0 <=> \E req \in RequirementLines : Unsatisfied(req)
        /\ pip_calls <= 1

\* The same statement with a false marker counting as unsatisfied, as the
\* loop of _is_requirements_satisfied has it, for files every line of which
\* can be parsed.
C22_FalseMarkerUnsatisfied ==
    (InstallReturned /\ \A i \in 1..Len(requirements_file.lines) : requirements_file.lines[i] # Invalid) =>
        (pip_calls > 0 <=> \E req \in RequirementLines : req.marker = "false" \/ Unsatisfied(req))

\* C23: when install_suite_dependencies has returned without an error, after
\* an installation, with the dependencies already satisfied, or without
\* doing anything because requirements.txt is absent, empty or comments
\* only, the lib directory of the suite is in sys.path.
C23_LibPathInSearchPath ==
    main_pc = "path" => LibPath \in sys_path

\* The operation only adds to sys.path.
C23_SearchPathOnlyGrows ==
    [][InstallSuiteDependencies => sys_path \subseteq sys_path']_vars

\* What does hold: the lib directory is in sys.path exactly when the file
\* held a requirement.
C23_LibPathUnlessSkipped ==
    main_pc = "path" =>
        (LibPath \in sys_path <=>
            requirements_file.is_file /\ ~_is_empty_or_only_comments(requirements_file.lines))

----
\* Claims about suite.conf

\* setup_suite has read suite.conf: a suite was named, its name is valid
\* and its directory exists.
SuiteConfRead ==
    /\ "suite_resolve" \in {checked[i] : i \in 1..Len(checked)}
    /\ settings.suite \in {Some(<<"d", "e", "m", "o">>), Some(<<"d", "e", "m", "o", "_", "s", "u", "i", "t", "e">>)}
    /\ DemoSuite \in disk

\* C24: parse_suite_conf returns exactly the three settings; each is the
\* value of its line in the file when that value is not empty and the
\* framework default otherwise; unrecognized keys, blank values and comment
\* lines are not in the result and do not make the parsing fail.
C24_ThreeSettingsOnly ==
    SuiteConfRead =>
        /\ parse_suite_conf(suite_conf).exc = "none"
        /\ {parse_suite_conf(suite_conf).value[i].key : i \in 1..Len(parse_suite_conf(suite_conf).value)} = SuiteConfigFields
        /\ Get(parse_suite_conf(suite_conf).value, "framework_version") = Declared("framework_version", VERSION)
        /\ Get(parse_suite_conf(suite_conf).value, "features_folder") = Declared("features_folder", SUITE_FEATURES_FOLDER)
        /\ Get(parse_suite_conf(suite_conf).value, "support_folder") = Declared("support_folder", SUITE_SUPPORT_FOLDER)
        /\ val_exc.type # "TypeError"

\* What does hold: the statement for the files without an unrecognized key
\* of non-empty value, and a TypeError for the others.
C24_UnlessUnrecognizedKey ==
    SuiteConfRead =>
        IF \E i \in 1..Len(suite_conf) : suite_conf[i].key \notin (SuiteConfigFields \cup {""}) /\ suite_conf[i].value # ""
        THEN val_exc = Error("TypeError", "suite_resolve")
        ELSE /\ parse_suite_conf(suite_conf).exc = "none"
             /\ Get(parse_suite_conf(suite_conf).value, "framework_version") = Declared("framework_version", VERSION)
             /\ Get(parse_suite_conf(suite_conf).value, "features_folder") = Declared("features_folder", SUITE_FEATURES_FOLDER)
             /\ Get(parse_suite_conf(suite_conf).value, "support_folder") = Declared("support_folder", SUITE_SUPPORT_FOLDER)
             /\ val_exc.type # "TypeError"
             /\ val_exc.about \notin {"suite_resolve", "suite_dir"} =>
                    suite_data.support_path = DemoSuite \o "/" \o Declared("support_folder", SUITE_SUPPORT_FOLDER)

\* A utility action that completes: the version is printed, or a suite of
\* a free name is scaffolded.
UtilityCompleted ==
    /\ ~main_config.argcomplete
    /\ main_config.raises = "none"
    /\ main_config.version \/ main_config.create_suite_name = Some("new")

\* C25: main() ends with 0 after a successful run and after a completed
\* utility action, which neither installs dependencies nor runs an area; it
\* ends with 1 when run_behave reports a failure and when any error is
\* raised, by the configuration, the suite management, the installation or
\* anything else; only the exit of the argument parser leaves main() as an
\* exception.
C25_ExitStatus ==
    main_pc = "exit" =>
        /\ exit_status \in {0, 1, 2}
        /\ exit_status = 2 <=> main_config.raises = "SystemExit"
        /\ UtilityCompleted => exit_status = 0 /\ pip_calls = 0 /\ behave_calls = 0
        /\ (behave_calls > 0 /\ behave_outcome = "0") => exit_status = 0
        /\ (behave_calls > 0 /\ behave_outcome = "1") => exit_status = 1
        /\ main_exc \notin {"none", "SystemExit"} => exit_status = 1
        /\ exit_status = 0 =>
               \/ main_config.argcomplete
               \/ UtilityCompleted
               \/ behave_calls > 0 /\ behave_outcome = "0"

C25_Witness ==
    /\ main_pc = "exit"
    /\ main_config.create_suite_name = Some("new")
    /\ ~main_config.version
    /\ main_exc = "none"
    /\ exit_status = 0
    /\ pip_calls = 0
    /\ behave_calls = 0

----
\* Claims about the colon of a specifier

\* The specifier split at its last colon: the fields before the last one
\* stay in the last segment of the path.
RECURSIVE WithColons(_, _)
WithColons(name, fields) ==
    IF fields = <<>> THEN name ELSE WithColons(name \o ":" \o Head(fields), Tail(fields))

PathPortion(spec) ==
    LET earlier == SubSeq(spec.suffix, 1, Len(spec.suffix) - 1)
    IN  SubSeq(spec.segs, 1, Len(spec.segs) - 1) \o <<WithColons(spec.segs[Len(spec.segs)], earlier)>>

EndsWithLine(spec) == ~spec.at /\ spec.suffix # <<>> /\ spec.suffix[Len(spec.suffix)] \in DigitStrs

\* C26: a specifier whose text after its last colon is a non-negative
\* integer is split at that colon: it is resolved, its line number is that
\* integer, and the colons before the last one belong to its path.
C26_SplitAtLastColon ==
    \A i \in 1..Len(resolved) :
        EndsWithLine(resolved[i].path) =>
            /\ resolved[i].kind = "item"
            /\ resolved[i].line = IntOf(resolved[i].path.suffix[Len(resolved[i].path.suffix)])
            /\ resolved[i].resolved =
                   (IF IsAbsolute(resolved[i].path) THEN <<>> ELSE FeaturesPath) \o PathPortion(resolved[i].path)

\* What does hold: the specifier is split at its first colon, and what
\* follows that colon has to be a non-negative integer.
C26_SplitAtFirstColon ==
    \A i \in 1..Len(resolved) :
        HasLineSuffix(resolved[i].path) =>
            IF ValidLineSuffix(resolved[i].path)
            THEN /\ resolved[i].kind = "item"
                 /\ resolved[i].line = IntOf(resolved[i].path.suffix[1])
                 /\ resolved[i].resolved =
                        (IF IsAbsolute(resolved[i].path) THEN <<>> ELSE FeaturesPath) \o resolved[i].path.segs
            ELSE resolved[i].kind = "raise" /\ resolved[i].exc = "ConfigError"

----
\* Claims about nested list-files

\* The specifier list with every list-file replaced by its contributing
\* lines, and every such line that names a list-file replaced in turn.
RECURSIVE ExpandNested(_)
ExpandNested(ps) ==
    IF ps = <<>> THEN <<>>
    ELSE LET kept == SelectSeq(ListFileLines(Head(ps).segs), IsSpecLine)
         IN  (IF Head(ps).at THEN ExpandNested([i \in 1..Len(kept) |-> kept[i].spec]) ELSE <<Head(ps)>>)
                 \o ExpandNested(Tail(ps))

OuterTxt == PathSpec(TRUE, FALSE, <<"outer.txt">>, <<>>)

\* C27: a line of a list-file that begins with "@" is expanded as a
\* list-file itself, at any depth: a run resolves what it resolves when
\* every list-file, nested ones included, is replaced by its contributing
\* lines, and returns the same locations.
C27_NestedListFilesExpanded ==
    (pc # "start" /\ ListFilesExist) =>
        \E s \in PlainStreams(ExpandNested(EffectivePaths(start_paths))) :
            /\ Len(resolved) <= Len(s)
            /\ resolved = SubSeq(s, 1, Len(resolved))
            /\ SetupDone => feature_locations = collect_feature_locations(s).locations

\* What does hold: the line "@list.txt" of outer.txt is resolved as the
\* path "@list.txt" below the features root, which does not exist and gives
\* no location.
C27_NestedLineIsLiteralPath ==
    (pc # "start" /\ start_paths = <<OuterTxt>>) =>
        /\ [i \in 1..Len(resolved) |-> resolved[i].resolved] =
               << FeaturesPath \o <<"areaC", "c1.feature">>, FeaturesPath \o <<"@list.txt">> >>
        /\ SetupDone => AreaNames = <<"areaC">>

----
\* Claims about the time of the specifier errors

SpecifierLocation(spec) == (IF IsAbsolute(spec) THEN <<>> ELSE FeaturesPath) \o spec.segs

MalformedSuffix(spec) == ~spec.at /\ spec.suffix # <<>> /\ spec.suffix[Len(spec.suffix)] \notin DigitStrs
MissingListFile(spec) == spec.at /\ spec.segs \notin Files
NamesOutsideRoot(spec) == ~spec.at /\ ~HasMagic(spec.segs) /\ OutsideRoot(SpecifierLocation(spec))

\* A specifier that is a fatal input error.
FatalSpecifier(spec) == MalformedSuffix(spec) \/ MissingListFile(spec) \/ NamesOutsideRoot(spec)

NoAreaExecuted ==
    /\ started = <<>>
    /\ engine_runs = <<>>
    /\ hooks = {}
    /\ step_registry = {}

\* C28: a run whose specifiers hold a fatal one (a malformed line suffix, a
\* location outside the features root, a missing list-file), or find no
\* feature file, ends in setup() with the error: no area is executed, no
\* hooks and no steps are loaded, whatever the other specifiers are.
C28_FatalSpecifierRunsNoArea ==
    (pc # "start" /\ (ResolvedNothing \/ \E i \in 1..Len(start_paths) : FatalSpecifier(start_paths[i]))) =>
        /\ pc = "raised"
        /\ exc \in {"ConfigError", "FileNotFoundError"}
        /\ NoAreaExecuted

\* What does hold: the same statement for the locations the containment
\* check of collect_feature_locations recognizes as outside, that is, those
\* whose unresolved path is not below the features root.
C28_ExceptThroughDotDot ==
    (pc # "start" /\ \E i \in 1..Len(start_paths) :
                        \/ MalformedSuffix(start_paths[i])
                        \/ MissingListFile(start_paths[i])
                        \/ NamesOutsideRoot(start_paths[i])
                            /\ ~IsRelativeTo(SpecifierLocation(start_paths[i]), FeaturesPath)) =>
        /\ pc = "raised"
        /\ exc \in {"ConfigError", "FileNotFoundError"}
        /\ NoAreaExecuted

----
\* Claims about an area that raises

\* run_feature_area did not return a status: the error left run().
AreaRaised == pc = "raised" /\ started # <<>>

\* C29: when the execution of an area raises instead of returning a status,
\* teardown has taken place by the time the error leaves run(): config.paths
\* has the value captured at setup() and every wrapped reporter and
\* formatter has been finalized.
C29_TeardownOnAreaError ==
    AreaRaised =>
        /\ paths = start_paths
        /\ TeardownRan
        /\ \A o \in Objects : WrappedNow(o) => reached[o][Finalizer(o)] = 1

\* What does hold: the error leaves run() at once; config.paths is left at
\* the directory of the area that raised and no wrapped reporter or
\* formatter is finalized.
C29_NoTeardownOnAreaError ==
    AreaRaised =>
        /\ paths = <<Str(AreaPath(started[Len(started)]))>>
        /\ paths # start_paths
        /\ \A o \in Objects : invoked[o]["done"] = 0 /\ reached[o][Finalizer(o)] = 0

----
\* Claims about keys that differ in letter case

\* The sources the program has read in this run.
WasRead(src) ==
    \/ src \in {"os", "user"}
    \/ src = "project" /\ from_source
    \/ src = "cli" /\ cli_config = CliEnv

\* The variables that supply the setting `name`: read, of that name after
\* the prefix, of a non-blank value, and not replaced by a later definition
\* of the very same key.
Suppliers(name) ==
    {i \in 1..Len(variables) :
        /\ WasRead(variables[i].src)
        /\ SettingName(variables[i].key) = name
        /\ Strip(variables[i].value) # <<>>
        /\ \A j \in 1..Len(variables) :
               (WasRead(variables[j].src) /\ variables[j].key = variables[i].key /\ j # i) =>
                   \/ Rank(variables[j].src) < Rank(variables[i].src)
                   \/ Rank(variables[j].src) = Rank(variables[i].src) /\ j < i}

\* Sources of different precedence supply the setting under keys that
\* differ only in letter case, and one of them is the highest.
SuppliedInCaseVariants(name) ==
    /\ \E i, j \in Suppliers(name) :
           variables[i].key # variables[j].key /\ Rank(variables[i].src) # Rank(variables[j].src)
    /\ \E i \in Suppliers(name) : \A j \in Suppliers(name) \ {i} : Rank(variables[j].src) < Rank(variables[i].src)

HighestSupplier(name) ==
    CHOOSE i \in Suppliers(name) : \A j \in Suppliers(name) \ {i} : Rank(variables[j].src) < Rank(variables[i].src)

\* C30: when load_environment_settings returns, a setting that sources of
\* different precedence supply under keys differing only in letter case has
\* the value of the highest-precedence source, wherever its keys stand in
\* the merged environment.
C30_HighestSourceWinsAcrossCase ==
    load_pc = "loaded" =>
        \A k \in 1..Len(variables) :
            LET name == SettingName(variables[k].key)
            IN  (name # "" /\ SuppliedInCaseVariants(name)) =>
                    Get(defaults, name) = ExpectedValue(name, Join(variables[HighestSupplier(name)].value))

\* What does hold: the setting has the value of the supplying key that
\* stands last in the merged environment.
C30_LastKeyWins ==
    load_pc = "loaded" =>
        \A k \in 1..Len(variables) :
            LET name == SettingName(variables[k].key)
            IN  (name # "" /\ SuppliedInCaseVariants(name)) =>
                    Get(defaults, name) = ExpectedValue(name, Join(env_values[LastSupplying(name)].value))

====
